---------------------------- MODULE Spec2Model ----------------------------
(***************************************************************************)
(* A model of the cpp_json parsing pipeline: the tokenizer                 *)
(* (src/src/tokenizer.cpp), the recursive-descent parser                   *)
(* (src/src/parser.cpp), the writer (src/src/writer.cpp), the tree         *)
(* accessors (src/include/json/ast.hpp) and the builder                    *)
(* (src/include/json/builder.hpp).                                         *)
(*                                                                         *)
(* Bytes are the integers 0..255.  Offsets are 0-based as in the code;     *)
(* At(s, i) reads s[i] of the C++ buffer.                                  *)
(***************************************************************************)
EXTENDS Integers, Sequences, FiniteSets, TLC

(***************************************************************************)
(* Character codes used by the code's character literals.                  *)
(***************************************************************************)
TAB == 9
LF == 10
CR == 13
BS == 8
FF == 12
SPACE == 32
QUOTE == 34
PLUS == 43
COMMA == 44
MINUS == 45
DOT == 46
SLASH == 47
COLON == 58
LBRACKET == 91
BACKSLASH == 92
RBRACKET == 93
LBRACE == 123
RBRACE == 125
Ch_0 == 48
Ch_9 == 57
Ch_A == 65
Ch_E == 69
Ch_F == 70
Ch_a == 97
Ch_b == 98
Ch_e == 101
Ch_f == 102
Ch_n == 110
Ch_r == 114
Ch_t == 116
Ch_u == 117

At(s, i) ==
    s[i + 1]

\* s.substr(from, count)
Substr(s, from, count) ==
    SubSeq(s, from + 1, from + count)

kw_true ==
    <<116, 114, 117, 101>>

kw_false ==
    <<102, 97, 108, 115, 101>>

kw_null ==
    <<110, 117, 108, 108>>

(***************************************************************************)
(* error.hpp                                                               *)
(***************************************************************************)
ErrorCode ==
    {"None", "UnexpectedEOF", "InvalidToken", "InvalidNumber", "InvalidString",
     "InvalidEscape", "UnexpectedToken", "ExpectedColon", "ExpectedComma",
     "ExpectedValue", "TooDeep", "OutOfMemory"}

error_message(code) ==
    CASE code = "None" -> "No error"
      [] code = "UnexpectedEOF" -> "Unexpected end of file"
      [] code = "InvalidToken" -> "Invalid token"
      [] code = "InvalidNumber" -> "Invalid number format"
      [] code = "InvalidString" -> "Invalid string"
      [] code = "InvalidEscape" -> "Invalid escape sequence"
      [] code = "UnexpectedToken" -> "Unexpected token"
      [] code = "ExpectedColon" -> "Expected ':'"
      [] code = "ExpectedComma" -> "Expected ','"
      [] code = "ExpectedValue" -> "Expected value"
      [] code = "TooDeep" -> "Nesting too deep"
      [] code = "OutOfMemory" -> "Out of memory"
      [] OTHER -> "Unknown error"

\* struct Error {code, offset, message}
Error(c, off, msg) ==
    [code |-> c, offset |-> off, message |-> msg]

\* struct Token {type, text, offset}
Token(ty, txt, off) ==
    [type |-> ty, text |-> txt, offset |-> off]

\* Result<Token> of a tokenizer call, with the value of pos_ it leaves.
TokOk(tok, p) ==
    [ok |-> TRUE, token |-> tok, pos |-> p]

TokErr(err, p) ==
    [ok |-> FALSE, error |-> err, pos |-> p]

(***************************************************************************)
(* tokenizer.cpp : helpers                                                 *)
(***************************************************************************)
isdigit(c) ==
    c >= Ch_0 /\ c <= Ch_9

hex_to_int(c) ==
    IF c >= Ch_0 /\ c <= Ch_9 THEN c - Ch_0
    ELSE IF c >= Ch_a /\ c <= Ch_f THEN c - Ch_a + 10
    ELSE IF c >= Ch_A /\ c <= Ch_F THEN c - Ch_A + 10
    ELSE -1

RECURSIVE decode_loop(_, _, _, _)
decode_loop(s, ptr, i, val) ==
    IF i >= 4 THEN val
    ELSE LET h == hex_to_int(At(s, ptr + i)) IN
         IF h < 0 THEN -1
         ELSE decode_loop(s, ptr, i + 1, val * 16 + h)

\* decode_unicode_escape(input_.data() + ptr)
decode_unicode_escape(s, ptr) ==
    decode_loop(s, ptr, 0, 0)

\* The bytes encode_utf8 writes; the empty sequence stands for "return 0".
encode_utf8(codepoint) ==
    IF codepoint < 128 THEN
        <<codepoint>>
    ELSE IF codepoint < 2048 THEN
        <<192 + (codepoint \div 64), 128 + (codepoint % 64)>>
    ELSE IF codepoint < 65536 THEN
        <<224 + (codepoint \div 4096), 128 + ((codepoint \div 64) % 64),
          128 + (codepoint % 64)>>
    ELSE IF codepoint < 1114112 THEN
        <<240 + (codepoint \div 262144), 128 + ((codepoint \div 4096) % 64),
          128 + ((codepoint \div 64) % 64), 128 + (codepoint % 64)>>
    ELSE <<>>

RECURSIVE skip_whitespace_form_feed(_, _)
skip_whitespace_form_feed(s, p) ==
    IF p < Len(s) /\ At(s, p) \in {SPACE, TAB, LF, CR, FF}
    THEN skip_whitespace_form_feed(s, p + 1)
    ELSE p

RECURSIVE skip_whitespace(_, _)
skip_whitespace(s, p) ==
    IF p < Len(s) /\ At(s, p) \in {SPACE, TAB, LF, CR}
    THEN skip_whitespace(s, p + 1)
    ELSE p

(***************************************************************************)
(* Tokenizer::read_string                                                  *)
(***************************************************************************)
\* First pass: [err, scan_pos, has_escapes]
RECURSIVE scan_string_single(_, _, _)
scan_string_single(s, scan_pos, has_escapes) ==
    IF scan_pos >= Len(s) THEN
        [err |-> FALSE, scan_pos |-> scan_pos, has_escapes |-> has_escapes]
    ELSE IF At(s, scan_pos) = QUOTE THEN
        [err |-> FALSE, scan_pos |-> scan_pos, has_escapes |-> has_escapes]
    ELSE IF At(s, scan_pos) = BACKSLASH THEN
        IF scan_pos + 1 >= Len(s)
        THEN [err |-> TRUE, scan_pos |-> scan_pos + 1, has_escapes |-> TRUE]
        ELSE scan_string_single(s, scan_pos + 1, TRUE)
    ELSE scan_string_single(s, scan_pos + 1, has_escapes)

RECURSIVE scan_string(_, _, _)
scan_string(s, scan_pos, has_escapes) ==
    IF scan_pos >= Len(s) THEN
        [err |-> FALSE, scan_pos |-> scan_pos, has_escapes |-> has_escapes]
    ELSE IF At(s, scan_pos) = QUOTE THEN
        [err |-> FALSE, scan_pos |-> scan_pos, has_escapes |-> has_escapes]
    ELSE IF At(s, scan_pos) = BACKSLASH THEN
        IF scan_pos + 1 >= Len(s)
        THEN [err |-> TRUE, scan_pos |-> scan_pos + 1, has_escapes |-> TRUE]
        ELSE scan_string(s, scan_pos + 2, TRUE)
    ELSE scan_string(s, scan_pos + 1, has_escapes)

SimpleEscape_verbatim(escape) ==
    escape

SimpleEscape(escape) ==
    CASE escape = QUOTE -> QUOTE
      [] escape = BACKSLASH -> BACKSLASH
      [] escape = SLASH -> SLASH
      [] escape = Ch_b -> BS
      [] escape = Ch_f -> FF
      [] escape = Ch_n -> LF
      [] escape = Ch_r -> CR
      [] escape = Ch_t -> TAB

CombineSurrogates_no_offset(codepoint, low) ==
    ((codepoint - 55296) * 1024) + (low - 56320)

\* The whole surrogate range, 0xD800 to 0xDFFF.
IsHighSurrogate_whole_range(cp) ==
    cp >= 55296 /\ cp <= 57343

IsHighSurrogate(cp) ==
    cp >= 55296 /\ cp <= 56319

IsLowSurrogate(cp) ==
    cp >= 56320 /\ cp <= 57343

CombineSurrogates(codepoint, low) ==
    65536 + ((codepoint - 55296) * 1024) + (low - 56320)

Max2(a, b) ==
    IF a >= b THEN a ELSE b

\* The last index decode_unicode_escape(input_.data() + ptr) reads: that of
\* the first character that is no hex digit, or of the fourth.
RECURSIVE decode_last(_, _, _)
decode_last(s, ptr, i) ==
    IF i >= 3 \/ hex_to_int(At(s, ptr + i)) < 0 THEN ptr + i
    ELSE decode_last(s, ptr, i + 1)

\* Second pass (the while loop of the slow path): [ok, buf, top] or
\* [ok, error, buf, top].  buf holds the bytes written through write_ptr so
\* far and top is the highest index of input_ read so far.
RECURSIVE unescape(_, _, _, _, _)
unescape(s, read_pos, scan_pos, buf, top) ==
    IF read_pos >= scan_pos THEN [ok |-> TRUE, buf |-> buf, top |-> top]
    ELSE LET c == At(s, read_pos) IN
    IF c # BACKSLASH THEN
        unescape(s, read_pos + 1, scan_pos, Append(buf, c), Max2(top, read_pos))
    ELSE LET rp1 == read_pos + 1 IN
    IF rp1 >= scan_pos THEN
        [ok |-> FALSE, buf |-> buf, top |-> Max2(top, read_pos),
         error |-> Error("InvalidEscape", rp1, error_message("InvalidEscape"))]
    ELSE LET escape == At(s, rp1) IN
    IF escape \in {QUOTE, BACKSLASH, SLASH, Ch_b, Ch_f, Ch_n, Ch_r, Ch_t} THEN
        unescape(s, rp1 + 1, scan_pos, Append(buf, SimpleEscape(escape)),
                 Max2(top, rp1))
    ELSE IF escape # Ch_u THEN
        [ok |-> FALSE, buf |-> buf, top |-> Max2(top, rp1),
         error |-> Error("InvalidEscape", rp1, "Unknown escape sequence")]
    ELSE LET rp2 == rp1 + 1 IN
    IF rp2 + 3 >= Len(s) THEN
        [ok |-> FALSE, buf |-> buf, top |-> Max2(top, rp1),
         error |-> Error("InvalidEscape", rp2, error_message("InvalidEscape"))]
    ELSE LET codepoint == decode_unicode_escape(s, rp2) IN
    IF codepoint < 0 THEN
        [ok |-> FALSE, buf |-> buf, top |-> Max2(top, decode_last(s, rp2, 0)),
         error |-> Error("InvalidEscape", rp2, "Invalid unicode escape sequence")]
    ELSE IF IsHighSurrogate(codepoint) THEN
        LET rp3 == rp2 + 4 IN
        IF rp3 + 5 >= Len(s) THEN
            [ok |-> FALSE, buf |-> buf, top |-> Max2(top, rp2 + 3),
             error |-> Error("InvalidEscape", rp3, "Missing low surrogate")]
        ELSE IF At(s, rp3) # BACKSLASH \/ At(s, rp3 + 1) # Ch_u THEN
            [ok |-> FALSE, buf |-> buf,
             top |-> Max2(top, IF At(s, rp3) # BACKSLASH THEN rp3 ELSE rp3 + 1),
             error |-> Error("InvalidEscape", rp3, "Missing low surrogate")]
        ELSE LET rp4 == rp3 + 2
                 low == decode_unicode_escape(s, rp4) IN
        IF low < 56320 \/ low > 57343 THEN
            [ok |-> FALSE, buf |-> buf, top |-> Max2(top, decode_last(s, rp4, 0)),
             error |-> Error("InvalidEscape", rp4, "Invalid low surrogate")]
        ELSE LET enc == encode_utf8(CombineSurrogates(codepoint, low)) IN
        IF Len(enc) = 0 THEN
            [ok |-> FALSE, buf |-> buf, top |-> Max2(top, rp4 + 3),
             error |-> Error("InvalidEscape", rp4 + 3, "Invalid codepoint")]
        ELSE unescape(s, rp4 + 4, scan_pos, buf \o enc, Max2(top, rp4 + 3))
    ELSE LET enc == encode_utf8(codepoint) IN
        IF Len(enc) = 0 THEN
            [ok |-> FALSE, buf |-> buf, top |-> Max2(top, rp2 + 3),
             error |-> Error("InvalidEscape", rp2 + 3, "Invalid codepoint")]
        ELSE unescape(s, rp2 + 4, scan_pos, buf \o enc, Max2(top, rp2 + 3))

\* "Add closing quote"; the token text is the buffer up to write_ptr.
string_token_no_closing_quote(s, start, pos1, scan, u) ==
    IF ~u.ok THEN TokErr(u.error, pos1)
    ELSE TokOk(Token("String", u.buf, start), scan.scan_pos + 1)

string_token(s, start, pos1, scan, u) ==
    IF ~u.ok THEN TokErr(u.error, pos1)
    ELSE TokOk(Token("String", Append(u.buf, QUOTE), start), scan.scan_pos + 1)

\* After the first pass has found the closing quote.
read_string_scanned(s, start, pos1, scan) ==
    IF scan.err THEN
        TokErr(Error("InvalidEscape", scan.scan_pos, error_message("InvalidEscape")), pos1)
    ELSE IF scan.scan_pos >= Len(s) THEN
        TokErr(Error("InvalidString", start, error_message("InvalidString")), pos1)
    ELSE IF ~scan.has_escapes THEN
        TokOk(Token("String", Substr(s, start, scan.scan_pos + 1 - start), start),
              scan.scan_pos + 1)
    ELSE string_token(s, start, pos1, scan,
                      unescape(s, pos1, scan.scan_pos, <<QUOTE>>, scan.scan_pos))

\* read_string is entered with pos_ = p at the opening quote.
read_string(s, p) ==
    read_string_scanned(s, p, p + 1, scan_string(s, p + 1, FALSE))

(***************************************************************************)
(* Tokenizer::read_number                                                  *)
(***************************************************************************)
\* while (pos_ < input_.size() && std::isdigit(input_[pos_])) ++pos_;
RECURSIVE skip_digits(_, _)
skip_digits(s, p) ==
    IF p < Len(s) /\ isdigit(At(s, p)) THEN skip_digits(s, p + 1) ELSE p

\* Integer part: a single 0, or a run of digits.
integer_part_any_digits(s, p) ==
    skip_digits(s, p)

integer_part(s, p) ==
    IF At(s, p) = Ch_0 THEN p + 1 ELSE skip_digits(s, p)

invalid_number(start, p) ==
    TokErr(Error("InvalidNumber", start, error_message("InvalidNumber")), p)

number_token(s, start, p) ==
    TokOk(Token("Number", Substr(s, start, p - start), start), p)

\* The digits of the exponent; pos_ = p is past the e and its sign.
read_exponent_digits(s, start, p) ==
    IF p >= Len(s) \/ ~isdigit(At(s, p)) THEN invalid_number(start, p)
    ELSE number_token(s, start, skip_digits(s, p))

\* Exponent part; pos_ = p is past the fraction.
read_exponent(s, start, p) ==
    IF p < Len(s) /\ At(s, p) \in {Ch_e, Ch_E} THEN
        read_exponent_digits(s, start,
            IF p + 1 < Len(s) /\ At(s, p + 1) \in {PLUS, MINUS}
            THEN p + 2 ELSE p + 1)
    ELSE number_token(s, start, p)

\* Fractional part; pos_ = p is past the integer part.
read_fraction(s, start, p) ==
    IF p < Len(s) /\ At(s, p) = DOT THEN
        IF p + 1 >= Len(s) \/ ~isdigit(At(s, p + 1))
        THEN invalid_number(start, p + 1)
        ELSE read_exponent(s, start, skip_digits(s, p + 1))
    ELSE read_exponent(s, start, p)

\* pos_ = p is past the optional minus sign.
read_integer(s, start, p) ==
    IF p >= Len(s) \/ ~isdigit(At(s, p)) THEN invalid_number(start, p)
    ELSE read_fraction(s, start, integer_part(s, p))

read_number(s, p) ==
    read_integer(s, p, IF At(s, p) = MINUS THEN p + 1 ELSE p)

(***************************************************************************)
(* Tokenizer::read_keyword                                                 *)
(***************************************************************************)
RECURSIVE keyword_loop(_, _, _, _, _, _)
keyword_loop(s, start, p, keyword, i, type) ==
    IF i >= Len(keyword) THEN
        TokOk(Token(type, Substr(s, start, Len(keyword)), start), p)
    ELSE IF p >= Len(s) \/ At(s, p) # At(keyword, i) THEN
        TokErr(Error("InvalidToken", start, error_message("InvalidToken")), p)
    ELSE keyword_loop(s, start, p + 1, keyword, i + 1, type)

\* The keyword is returned and pos_ stays where it was.
read_keyword_in_place(s, p, keyword, type) ==
    TokOk(Token(type, keyword, p), p)

read_keyword(s, p, keyword, type) ==
    keyword_loop(s, p, p, keyword, 0, type)

(***************************************************************************)
(* Tokenizer::next, called with pos_ = p0                                  *)
(***************************************************************************)
at_end(s, p) ==
    p >= Len(s)

next_token(s, p) ==
    IF at_end(s, p) THEN TokOk(Token("End", <<>>, p), p)
    ELSE LET start == p
             c == At(s, p) IN
    CASE c = LBRACE -> TokOk(Token("LeftBrace", <<LBRACE>>, start), p + 1)
      [] c = RBRACE -> TokOk(Token("RightBrace", <<RBRACE>>, start), p + 1)
      [] c = LBRACKET -> TokOk(Token("LeftBracket", <<LBRACKET>>, start), p + 1)
      [] c = RBRACKET -> TokOk(Token("RightBracket", <<RBRACKET>>, start), p + 1)
      [] c = COLON -> TokOk(Token("Colon", <<COLON>>, start), p + 1)
      [] c = COMMA -> TokOk(Token("Comma", <<COMMA>>, start), p + 1)
      [] c = QUOTE -> read_string(s, p)
      [] c = Ch_t -> read_keyword(s, p, kw_true, "True")
      [] c = Ch_f -> read_keyword(s, p, kw_false, "False")
      [] c = Ch_n -> read_keyword(s, p, kw_null, "Null")
      [] c = MINUS \/ isdigit(c) -> read_number(s, p)
      [] OTHER -> TokErr(Error("InvalidToken", p, error_message("InvalidToken")), p)

next(s, p0) ==
    next_token(s, skip_whitespace(s, p0))

(***************************************************************************)
(* Numbers.  A double is kept as the decimal it was read from, in normal   *)
(* form: neg, m, e stand for (-1)^neg * m * 10^e with m not divisible by   *)
(* 10 (m = 0 has e = 0).  Decimals of at most 15 significant digits map to *)
(* distinct doubles, so equality of normal forms is equality of doubles    *)
(* for every number the model reads.                                       *)
(***************************************************************************)
RECURSIVE digits_value(_, _, _, _)
digits_value(s, from, to, acc) ==
    IF from >= to THEN acc
    ELSE digits_value(s, from + 1, to, acc * 10 + (At(s, from) - Ch_0))

RECURSIVE normalize(_, _)
normalize(m, e) ==
    IF m = 0 THEN [m |-> 0, e |-> 0]
    ELSE IF m % 10 = 0 THEN normalize(m \div 10, e + 1)
    ELSE [m |-> m, e |-> e]

RECURSIVE num_digits(_)
num_digits(n) ==
    IF n < 10 THEN 1 ELSE 1 + num_digits(n \div 10)

Double(neg, m, e) ==
    LET n == normalize(m, e) IN [neg |-> neg, m |-> n.m, e |-> n.e]

\* Largest and smallest decimal exponent of a finite non-zero double.
DBL_MAX_10_EXP == 308
DBL_MIN_10_EXP == -324

\* std::from_chars(first, last, double&): [ec, val]
\* The value of the exponent part that starts at p, 0 when there is none.
exponent_value(text, p) ==
    IF ~(p < Len(text) /\ At(text, p) \in {Ch_e, Ch_E}) THEN 0
    ELSE IF p + 1 < Len(text) /\ At(text, p + 1) = MINUS THEN
        0 - digits_value(text, p + 2, skip_digits(text, p + 2), 0)
    ELSE IF p + 1 < Len(text) /\ At(text, p + 1) = PLUS THEN
        digits_value(text, p + 2, skip_digits(text, p + 2), 0)
    ELSE digits_value(text, p + 1, skip_digits(text, p + 1), 0)

\* The errc for a text with or without digits and the value read from it.
from_chars_result(no_digits, val) ==
    IF no_digits THEN [ec |-> "invalid_argument", val |-> val]
    ELSE IF val.m # 0
            /\ (val.e + num_digits(val.m) - 1 > DBL_MAX_10_EXP
                \/ val.e + num_digits(val.m) - 1 < DBL_MIN_10_EXP)
    THEN [ec |-> "result_out_of_range", val |-> val]
    ELSE [ec |-> "ok", val |-> val]

\* Integer digits in [i0, i1), fraction digits in [f0, f1).
from_chars_parts(text, neg, i0, i1, f0, f1) ==
    from_chars_result(i1 = i0,
        Double(neg, digits_value(text, f0, f1, digits_value(text, i0, i1, 0)),
               exponent_value(text, f1) - (f1 - f0)))

from_chars_fraction(text, neg, i0, i1) ==
    IF i1 < Len(text) /\ At(text, i1) = DOT
    THEN from_chars_parts(text, neg, i0, i1, i1 + 1, skip_digits(text, i1 + 1))
    ELSE from_chars_parts(text, neg, i0, i1, i1, i1)

from_chars_digits(text, neg, i0) ==
    from_chars_fraction(text, neg, i0, skip_digits(text, i0))

\* std::from_chars(first, last, double&): [ec, val]
from_chars(text) ==
    IF Len(text) > 0 /\ At(text, 0) = MINUS
    THEN from_chars_digits(text, TRUE, 1)
    ELSE from_chars_digits(text, FALSE, 0)

(***************************************************************************)
(* ast.hpp : Node                                                          *)
(***************************************************************************)
make_null ==
    [type |-> "Null"]

make_bool(val) ==
    [type |-> "Bool", bool_val |-> val]

make_number(val) ==
    [type |-> "Number", number_val |-> val]

\* string_val = {data, size}: the bytes data[0..size)
make_string(bytes) ==
    [type |-> "String", string_val |-> bytes]

\* array_val = {data, size}; null records data == nullptr
make_array_never_null(data, isnull) ==
    [type |-> "Array", array_val |-> [data |-> data, size |-> Len(data), null |-> FALSE]]

make_array(data, isnull) ==
    [type |-> "Array", array_val |-> [data |-> data, size |-> Len(data), null |-> isnull]]

\* object_val = {data, size}; each pair is {key, value}
make_object(data, isnull) ==
    [type |-> "Object", object_val |-> [data |-> data, size |-> Len(data), null |-> isnull]]

ObjectPair(key, value) ==
    [key |-> key, value |-> value]

(***************************************************************************)
(* parser.cpp                                                              *)
(***************************************************************************)
MaxDepth == 256

\* ++depth_ > MaxDepth, with d the incremented counter
too_deep_off_by_one(d) ==
    d >= MaxDepth

too_deep(d) ==
    d > MaxDepth

\* Result<Node*>
Ok(node) ==
    [ok |-> TRUE, node |-> node]

Err(err) ==
    [ok |-> FALSE, error |-> err]

\* The lookahead state the parser and its tokenizer share:
\* st = [pos |-> tok_.pos_, has |-> has_current_, cur |-> current_, reqs]
\* reqs counts the calls of tok_.next().
\* current_ = tok_.next() and its outcome
peek_next(st, r) ==
    IF ~r.ok THEN
        [ok |-> FALSE, error |-> r.error,
         st |-> [st EXCEPT !.pos = r.pos, !.reqs = @ + 1]]
    ELSE
        [ok |-> TRUE, token |-> r.token,
         st |-> [pos |-> r.pos, has |-> TRUE, cur |-> r.token,
                 reqs |-> st.reqs + 1]]

peek(s, st) ==
    IF ~st.has THEN peek_next(st, next(s, st.pos))
    ELSE [ok |-> TRUE, token |-> st.cur, st |-> st]

consume(st) ==
    [st EXCEPT !.has = FALSE]

expect_type(token, type) ==
    IF ~token.ok THEN token
    ELSE IF token.token.type # type THEN
        [ok |-> FALSE,
         error |-> Error("UnexpectedToken", token.token.offset,
                         error_message("UnexpectedToken")),
         st |-> token.st]
    ELSE [ok |-> TRUE, token |-> token.token, st |-> consume(token.st)]

expect(s, st, type) ==
    expect_type(peek(s, st), type)

\* text.substr(1, text.size() - 2) when text.size() >= 2
strip_quotes(text) ==
    IF Len(text) >= 2 THEN Substr(text, 1, Len(text) - 2) ELSE text

(***************************************************************************)
(* State                                                                   *)
(***************************************************************************)
VARIABLES
    input_,        \* Tokenizer::input_
    tk,            \* [pos |-> Tokenizer::pos_, has |-> Parser::has_current_,
                   \*  cur |-> Parser::current_, reqs |-> calls of next()]
    depth_,        \* Parser::depth_
    stack,         \* the active calls of parse, parse_array, parse_object
    pc,            \* what runs next
    ret,           \* the Result<Node*> the last finished call returned
    result,        \* what json::parse returned
    phase,         \* "first": the document; "reparse": the text write() gave
    orig,          \* the tree handed to write()
    char_signed,   \* whether plain char is signed in this build; "unset"
                   \* until write_string first depends on it
    doc,           \* how the document in input_ was put together
    builders,      \* the ArrayBuilder and ObjectBuilder objects in use
    built,         \* the Node* the last build() returned
    nbuild,        \* the number of builder calls made
    access,        \* the last accessor call and what it returned
    arena,         \* an Arena, with the heap that ::operator new serves
    allocs,        \* what the caller has asked of the arena
    lexed,         \* a Tokenizer used on its own: its arena_ and what its
                   \* last call of next() did
    last           \* the operation that ran last

vars ==
    <<input_, tk, depth_, stack, pc, ret, result, phase, orig, char_signed, doc,
      builders, built, nbuild, access, arena, allocs, lexed, last>>

\* What the parser leaves alone.
env ==
    <<phase, orig, char_signed, doc, builders, built, nbuild, access, arena,
      allocs, lexed>>

NoToken ==
    Token("End", <<>>, 0)

NoResult ==
    [ok |-> FALSE, error |-> Error("None", 0, error_message("None"))]

NoNode ==
    make_null

Top ==
    stack[Len(stack)]

Pop ==
    SubSeq(stack, 1, Len(stack) - 1)

Frame(fn, items, key) ==
    [fn |-> fn, items |-> items, key |-> key]

\* Tokenizer(input, arena) and Parser(arena, tokenizer)
NewTk ==
    [pos |-> 0, has |-> FALSE, cur |-> NoToken, reqs |-> 0]

(***************************************************************************)
(* Parser::parse_value                                                     *)
(***************************************************************************)
\* The default case of the switch: the token starts no value.
no_value_unexpected_token(t) ==
    Err(Error("UnexpectedToken", t.offset, error_message("UnexpectedToken")))

no_value_custom_message(t) ==
    Err(Error("ExpectedValue", t.offset, "Expected a value here"))

no_value(t) ==
    Err(Error("ExpectedValue", t.offset, error_message("ExpectedValue")))

\* case TokenType::Number
parse_number(token, r) ==
    IF r.ec # "ok" THEN
        [st |-> token.st, pc |-> "return",
         ret |-> Err(Error("InvalidNumber", token.token.offset,
                           error_message("InvalidNumber")))]
    ELSE [st |-> consume(token.st), pc |-> "return",
          ret |-> Ok(make_number(r.val))]

\* The switch on the type of the token peek() returned.
parse_value_token(token) ==
    IF ~token.ok THEN
        [st |-> token.st, pc |-> "return", ret |-> Err(token.error)]
    ELSE LET t == token.token IN
    CASE t.type = "Null" ->
            [st |-> consume(token.st), pc |-> "return", ret |-> Ok(make_null)]
      [] t.type \in {"True", "False"} ->
            [st |-> consume(token.st), pc |-> "return",
             ret |-> Ok(make_bool(t.type = "True"))]
      [] t.type = "Number" ->
            parse_number(token, from_chars(t.text))
      [] t.type = "String" ->
            [st |-> consume(token.st), pc |-> "return",
             ret |-> Ok(make_string(strip_quotes(t.text)))]
      [] t.type = "LeftBracket" ->
            [st |-> token.st, pc |-> "parse_array", ret |-> ret]
      [] t.type = "LeftBrace" ->
            [st |-> token.st, pc |-> "parse_object", ret |-> ret]
      [] OTHER ->
            [st |-> token.st, pc |-> "return", ret |-> no_value(t)]

parse_value_step(s, st) ==
    parse_value_token(peek(s, st))

parse_value ==
    /\ pc = "parse_value"
    /\ \E r \in {parse_value_step(input_, tk)} :
        /\ tk' = r.st
        /\ pc' = r.pc
        /\ ret' = r.ret
    /\ last' = "parse_value"
    /\ UNCHANGED <<input_, depth_, stack, result, env>>

(***************************************************************************)
(* Parser::parse_array                                                     *)
(***************************************************************************)
\* From the entry of parse_array to its first call of parse_value, or to
\* its return.
\* After expect(LeftBracket) and peek(): an empty array, or the first element.
parse_array_first(d1, token) ==
    IF ~token.ok THEN
        [st |-> token.st, depth |-> d1, call |-> FALSE, ret |-> Err(token.error)]
    ELSE IF token.token.type = "RightBracket" THEN
        [st |-> consume(token.st), depth |-> d1 - 1, call |-> FALSE,
         ret |-> Ok(make_array(<<>>, TRUE))]
    ELSE [st |-> token.st, depth |-> d1, call |-> TRUE, ret |-> ret]

parse_array_open(s, d1, left) ==
    IF ~left.ok THEN
        [st |-> left.st, depth |-> d1, call |-> FALSE, ret |-> Err(left.error)]
    ELSE parse_array_first(d1, peek(s, left.st))

parse_array_enter(s, st, depth) ==
    IF too_deep(depth + 1) THEN
        [st |-> st, depth |-> depth + 1, call |-> FALSE,
         ret |-> Err(Error("TooDeep", st.pos, error_message("TooDeep")))]
    ELSE parse_array_open(s, depth + 1, expect(s, st, "LeftBracket"))

parse_array ==
    /\ pc = "parse_array"
    /\ \E r \in {parse_array_enter(input_, tk, depth_)} :
        /\ tk' = r.st
        /\ depth_' = r.depth
        /\ ret' = r.ret
        /\ IF r.call
           THEN /\ stack' = Append(stack, Frame("parse_array", <<>>, <<>>))
                /\ pc' = "parse_value"
           ELSE /\ stack' = stack
                /\ pc' = "return"
    /\ last' = "parse_array"
    /\ UNCHANGED <<input_, result, env>>

\* From the return of parse_value inside the element loop to the next call
\* of parse_value, or to the return of parse_array.
\* After push_back(*element) and peek(): the end of the array, or a comma.
parse_array_next(depth, elems, element, token) ==
    IF ~token.ok THEN
        [st |-> token.st, depth |-> depth, call |-> FALSE, items |-> elems,
         ret |-> Err(token.error)]
    ELSE IF token.token.type = "RightBracket" THEN
        [st |-> consume(token.st), depth |-> depth - 1, call |-> FALSE,
         items |-> elems, ret |-> Ok(make_array(elems, FALSE))]
    ELSE IF token.token.type # "Comma" THEN
        [st |-> token.st, depth |-> depth, call |-> FALSE, items |-> elems,
         ret |-> Err(Error("ExpectedComma", token.token.offset,
                           error_message("ExpectedComma")))]
    ELSE [st |-> consume(token.st), depth |-> depth, call |-> TRUE,
          items |-> elems, ret |-> element]

parse_array_resume(s, st, depth, elements, element) ==
    IF ~element.ok THEN
        [st |-> st, depth |-> depth, call |-> FALSE, items |-> elements,
         ret |-> element]
    ELSE parse_array_next(depth, Append(elements, element.node), element,
                          peek(s, st))

parse_array_loop ==
    /\ pc = "return"
    /\ Len(stack) > 0
    /\ Top.fn = "parse_array"
    /\ \E r \in {parse_array_resume(input_, tk, depth_, Top.items, ret)} :
        /\ tk' = r.st
        /\ depth_' = r.depth
        /\ ret' = r.ret
        /\ IF r.call
           THEN /\ stack' = Append(Pop, Frame("parse_array", r.items, <<>>))
                /\ pc' = "parse_value"
           ELSE /\ stack' = Pop
                /\ pc' = "return"
    /\ last' = "parse_array_loop"
    /\ UNCHANGED <<input_, result, env>>

(***************************************************************************)
(* Parser::parse_object                                                    *)
(***************************************************************************)
\* The head of the pair loop: expect(String), strip the quotes,
\* expect(Colon).
object_key_colon(key_text, colon) ==
    IF ~colon.ok THEN [ok |-> FALSE, error |-> colon.error, st |-> colon.st]
    ELSE [ok |-> TRUE, key |-> key_text, st |-> colon.st]

object_key_string(s, key) ==
    IF ~key.ok THEN [ok |-> FALSE, error |-> key.error, st |-> key.st]
    ELSE object_key_colon(strip_quotes(key.token.text),
                          expect(s, key.st, "Colon"))

object_key(s, st) ==
    object_key_string(s, expect(s, st, "String"))

\* The first pass through the head of the pair loop.
parse_object_key(d1, k) ==
    IF ~k.ok THEN
        [st |-> k.st, depth |-> d1, call |-> FALSE, key |-> <<>>,
         ret |-> Err(k.error)]
    ELSE [st |-> k.st, depth |-> d1, call |-> TRUE, key |-> k.key, ret |-> ret]

\* After expect(LeftBrace) and peek(): an empty object, or the first pair.
parse_object_first(s, d1, token) ==
    IF ~token.ok THEN
        [st |-> token.st, depth |-> d1, call |-> FALSE, key |-> <<>>,
         ret |-> Err(token.error)]
    ELSE IF token.token.type = "RightBrace" THEN
        [st |-> consume(token.st), depth |-> d1 - 1, call |-> FALSE, key |-> <<>>,
         ret |-> Ok(make_object(<<>>, TRUE))]
    ELSE parse_object_key(d1, object_key(s, token.st))

parse_object_open(s, d1, left) ==
    IF ~left.ok THEN
        [st |-> left.st, depth |-> d1, call |-> FALSE, key |-> <<>>,
         ret |-> Err(left.error)]
    ELSE parse_object_first(s, d1, peek(s, left.st))

parse_object_enter(s, st, depth) ==
    IF too_deep(depth + 1) THEN
        [st |-> st, depth |-> depth + 1, call |-> FALSE, key |-> <<>>,
         ret |-> Err(Error("TooDeep", st.pos, error_message("TooDeep")))]
    ELSE parse_object_open(s, depth + 1, expect(s, st, "LeftBrace"))

parse_object ==
    /\ pc = "parse_object"
    /\ \E r \in {parse_object_enter(input_, tk, depth_)} :
        /\ tk' = r.st
        /\ depth_' = r.depth
        /\ ret' = r.ret
        /\ IF r.call
           THEN /\ stack' = Append(stack, Frame("parse_object", <<>>, r.key))
                /\ pc' = "parse_value"
           ELSE /\ stack' = stack
                /\ pc' = "return"
    /\ last' = "parse_object"
    /\ UNCHANGED <<input_, result, env>>

\* A later pass through the head of the pair loop.
parse_object_next_key(depth, prs, value, k) ==
    IF ~k.ok THEN
        [st |-> k.st, depth |-> depth, call |-> FALSE, items |-> prs,
         key |-> <<>>, ret |-> Err(k.error)]
    ELSE [st |-> k.st, depth |-> depth, call |-> TRUE, items |-> prs,
          key |-> k.key, ret |-> value]

\* After push_back(ObjectPair) and peek(): the end of the object, or a comma.
parse_object_next(s, depth, prs, value, token) ==
    IF ~token.ok THEN
        [st |-> token.st, depth |-> depth, call |-> FALSE, items |-> prs,
         key |-> <<>>, ret |-> Err(token.error)]
    ELSE IF token.token.type = "RightBrace" THEN
        [st |-> consume(token.st), depth |-> depth - 1, call |-> FALSE,
         items |-> prs, key |-> <<>>, ret |-> Ok(make_object(prs, FALSE))]
    ELSE IF token.token.type # "Comma" THEN
        [st |-> token.st, depth |-> depth, call |-> FALSE, items |-> prs,
         key |-> <<>>,
         ret |-> Err(Error("ExpectedComma", token.token.offset,
                           error_message("ExpectedComma")))]
    ELSE parse_object_next_key(depth, prs, value,
                               object_key(s, consume(token.st)))

parse_object_resume(s, st, depth, pairs, key_text, value) ==
    IF ~value.ok THEN
        [st |-> st, depth |-> depth, call |-> FALSE, items |-> pairs,
         key |-> <<>>, ret |-> value]
    ELSE parse_object_next(s, depth,
                           Append(pairs, ObjectPair(key_text, value.node)),
                           value, peek(s, st))

parse_object_loop ==
    /\ pc = "return"
    /\ Len(stack) > 0
    /\ Top.fn = "parse_object"
    /\ \E r \in {parse_object_resume(input_, tk, depth_, Top.items, Top.key, ret)} :
        /\ tk' = r.st
        /\ depth_' = r.depth
        /\ ret' = r.ret
        /\ IF r.call
           THEN /\ stack' = Append(Pop, Frame("parse_object", r.items, r.key))
                /\ pc' = "parse_value"
           ELSE /\ stack' = Pop
                /\ pc' = "return"
    /\ last' = "parse_object_loop"
    /\ UNCHANGED <<input_, result, env>>

(***************************************************************************)
(* Parser::parse and json::parse                                           *)
(***************************************************************************)
\* json::parse builds the tokenizer and the parser and calls
\* Parser::parse, which starts with a call of parse_value.
parse ==
    /\ pc = "parse"
    /\ tk' = NewTk
    /\ depth_' = 0
    /\ stack' = <<Frame("parse", <<>>, <<>>)>>
    /\ pc' = "parse_value"
    /\ last' = "parse"
    /\ UNCHANGED <<input_, ret, result, env>>

\* Parser::parse after parse_value has returned.
parse_finish_no_end_check(s, st, value) ==
    [st |-> st, result |-> value]

\* "Verify we're at end of input"
parse_end(value, token) ==
    IF ~token.ok THEN [st |-> token.st, result |-> Err(token.error)]
    ELSE IF token.token.type # "End" THEN
        [st |-> token.st,
         result |-> Err(Error("UnexpectedToken", token.token.offset,
                              error_message("UnexpectedToken")))]
    ELSE [st |-> token.st, result |-> value]

parse_finish(s, st, value) ==
    IF ~value.ok THEN [st |-> st, result |-> value]
    ELSE parse_end(value, peek(s, st))

parse_return ==
    /\ pc = "return"
    /\ Len(stack) > 0
    /\ Top.fn = "parse"
    /\ \E r \in {parse_finish(input_, tk, ret)} :
        /\ tk' = r.st
        /\ result' = r.result
    /\ stack' = Pop
    /\ pc' = "done"
    /\ last' = "parse_return"
    /\ UNCHANGED <<input_, depth_, ret, env>>

(***************************************************************************)
(* writer.cpp                                                              *)
(***************************************************************************)
RECURSIVE repeat(_, _)
repeat(c, n) ==
    IF n <= 0 THEN <<>> ELSE <<c>> \o repeat(c, n - 1)

\* The decimal digits of n, most significant first.
RECURSIVE to_digits(_)
to_digits(n) ==
    IF n < 10 THEN <<Ch_0 + n>> ELSE Append(to_digits(n \div 10), Ch_0 + (n % 10))

\* std::format("{}", double): the shortest decimal that reads back to the
\* same double, in fixed notation unless scientific notation is shorter.
format_double(v) ==
    LET D == to_digits(v.m)
        k == Len(D)
        X == v.e + k - 1
        absX == IF X < 0 THEN -X ELSE X
        sign == IF v.neg THEN <<MINUS>> ELSE <<>>
        lenFixed == IF v.e >= 0 THEN k + v.e
                    ELSE IF X >= 0 THEN k + 1
                    ELSE 1 - X + k
        expDigits == IF absX < 10 THEN <<Ch_0>> \o to_digits(absX) ELSE to_digits(absX)
        lenSci == k + (IF k > 1 THEN 1 ELSE 0) + 2 + Len(expDigits)
        fixed == IF v.e >= 0 THEN D \o repeat(Ch_0, v.e)
                 ELSE IF X >= 0 THEN SubSeq(D, 1, X + 1) \o <<DOT>> \o SubSeq(D, X + 2, k)
                 ELSE <<Ch_0, DOT>> \o repeat(Ch_0, -X - 1) \o D
        sci == <<D[1]>> \o (IF k > 1 THEN <<DOT>> \o SubSeq(D, 2, k) ELSE <<>>)
               \o <<Ch_e, IF X < 0 THEN MINUS ELSE PLUS>> \o expDigits
    IN
    IF v.m = 0 THEN sign \o <<Ch_0>>
    ELSE IF lenSci < lenFixed THEN sign \o sci
    ELSE sign \o fixed

hex_digit(n) ==
    IF n < 10 THEN Ch_0 + n ELSE Ch_a + (n - 10)

\* The value of a char holding byte b: plain char is signed or unsigned
\* depending on the build.
char_value(b, signed) ==
    IF signed /\ b >= 128 THEN b - 256 ELSE b

\* What the switch of write_string appends for one char.
write_char(c, signed) ==
    CASE c = QUOTE -> <<BACKSLASH, QUOTE>>
      [] c = BACKSLASH -> <<BACKSLASH, BACKSLASH>>
      [] c = BS -> <<BACKSLASH, Ch_b>>
      [] c = FF -> <<BACKSLASH, Ch_f>>
      [] c = LF -> <<BACKSLASH, Ch_n>>
      [] c = CR -> <<BACKSLASH, Ch_r>>
      [] c = TAB -> <<BACKSLASH, Ch_t>>
      [] OTHER ->
            IF char_value(c, signed) >= SPACE THEN <<c>>
            ELSE <<BACKSLASH, Ch_u, Ch_0, Ch_0, hex_digit(c \div 16), hex_digit(c % 16)>>

RECURSIVE write_chars(_, _, _)
write_chars(str, i, signed) ==
    IF i > Len(str) THEN <<>>
    ELSE write_char(str[i], signed) \o write_chars(str, i + 1, signed)

write_string(str, signed) ==
    <<QUOTE>> \o write_chars(str, 1, signed) \o <<QUOTE>>

\* Writer(bool pretty = false, int indent_size = 2)
indent_size_ == 2

\* out += pretty_ ? ": " : ":"
pair_separator_spaced(pretty) ==
    <<COLON, SPACE>>

pair_separator(pretty) ==
    IF pretty THEN <<COLON, SPACE>> ELSE <<COLON>>

write_indent(indent) ==
    repeat(SPACE, indent * indent_size_)

write_newline ==
    <<LF>>

RECURSIVE write_node(_, _, _, _)
RECURSIVE write_elements(_, _, _, _, _)
RECURSIVE write_pairs(_, _, _, _, _)
write_elements(data, i, pretty, indent, signed) ==
    IF i > Len(data) THEN <<>>
    ELSE (IF pretty THEN write_indent(indent) ELSE <<>>)
         \o write_node(data[i], pretty, indent, signed)
         \o (IF i < Len(data) THEN <<COMMA>> ELSE <<>>)
         \o (IF pretty THEN write_newline ELSE <<>>)
         \o write_elements(data, i + 1, pretty, indent, signed)

write_pairs(data, i, pretty, indent, signed) ==
    IF i > Len(data) THEN <<>>
    ELSE (IF pretty THEN write_indent(indent) ELSE <<>>)
         \o write_string(data[i].key, signed)
         \o pair_separator(pretty)
         \o write_node(data[i].value, pretty, indent, signed)
         \o (IF i < Len(data) THEN <<COMMA>> ELSE <<>>)
         \o (IF pretty THEN write_newline ELSE <<>>)
         \o write_pairs(data, i + 1, pretty, indent, signed)

write_node(node, pretty, indent, signed) ==
    CASE node.type = "Null" -> kw_null
      [] node.type = "Bool" -> IF node.bool_val THEN kw_true ELSE kw_false
      [] node.type = "Number" -> format_double(node.number_val)
      [] node.type = "String" -> write_string(node.string_val, signed)
      [] node.type = "Array" ->
            LET open == pretty /\ node.array_val.size > 0 IN
            <<LBRACKET>>
            \o (IF open THEN write_newline ELSE <<>>)
            \o write_elements(node.array_val.data, 1, pretty,
                              IF open THEN indent + 1 ELSE indent, signed)
            \o (IF open THEN write_indent(indent) ELSE <<>>)
            \o <<RBRACKET>>
      [] node.type = "Object" ->
            LET open == pretty /\ node.object_val.size > 0 IN
            <<LBRACE>>
            \o (IF open THEN write_newline ELSE <<>>)
            \o write_pairs(node.object_val.data, 1, pretty,
                           IF open THEN indent + 1 ELSE indent, signed)
            \o (IF open THEN write_indent(indent) ELSE <<>>)
            \o <<RBRACE>>

\* json::write(root, pretty)
Writer_write(root, pretty, signed) ==
    write_node(root, pretty, 0, signed)

(***************************************************************************)
(* ast.hpp : accessors                                                     *)
(***************************************************************************)
AccessOk(node) ==
    [ok |-> TRUE, node |-> node]

AccessError(code) ==
    [ok |-> FALSE, code |-> code]

\* ObjectView::find: the index of the pair the loop returns from, 0 for
\* "return nullptr".
RECURSIVE find_from_last(_, _, _)
find_from_last(data, i, key) ==
    IF i > Len(data) THEN 0
    ELSE LET later == find_from_last(data, i + 1, key) IN
         IF later # 0 THEN later
         ELSE IF data[i].key = key THEN i
         ELSE 0

RECURSIVE find_from(_, _, _)
find_from(data, i, key) ==
    IF i > Len(data) THEN 0
    ELSE IF data[i].key = key THEN i
    ELSE find_from(data, i + 1, key)

find(object_val, key) ==
    find_from(object_val.data, 1, key)

\* Node::operator[](std::string_view key)
index_key(node, key) ==
    IF node.type # "Object" THEN AccessError("TypeMismatch")
    ELSE LET i == find(node.object_val, key) IN
         IF i = 0 THEN AccessError("KeyNotFound")
         ELSE AccessOk(node.object_val.data[i].value)

\* A typed accessor's value.
AccessValue(value) ==
    [ok |-> TRUE, value |-> value]

as_bool(node) ==
    IF node.type # "Bool" THEN AccessError("TypeMismatch")
    ELSE AccessValue(node.bool_val)

as_number(node) ==
    IF node.type # "Number" THEN AccessError("TypeMismatch")
    ELSE AccessValue(node.number_val)

as_string(node) ==
    IF node.type # "String" THEN AccessError("TypeMismatch")
    ELSE AccessValue(node.string_val)

as_array(node) ==
    IF node.type # "Array" THEN AccessError("TypeMismatch")
    ELSE AccessValue(node.array_val)

as_object(node) ==
    IF node.type # "Object" THEN AccessError("TypeMismatch")
    ELSE AccessValue(node.object_val)

\* Node::operator[](size_t index)
index_at_key_not_found(node, index) ==
    IF node.type # "Array" THEN AccessError("TypeMismatch")
    ELSE IF index >= node.array_val.size THEN AccessError("KeyNotFound")
    ELSE AccessOk(node.array_val.data[index + 1])

index_at(node, index) ==
    IF node.type # "Array" THEN AccessError("TypeMismatch")
    ELSE IF index >= node.array_val.size THEN AccessError("OutOfBounds")
    ELSE AccessOk(node.array_val.data[index + 1])

(***************************************************************************)
(* The documents the model reads                                           *)
(***************************************************************************)
MaxPieces == 4
MaxStrPieces == 2

RECURSIVE Flatten(_)
Flatten(pieces) ==
    IF Len(pieces) = 0 THEN <<>> ELSE Head(pieces) \o Flatten(Tail(pieces))

SeqsUpTo(S, n) ==
    UNION {[1..k -> S] : k \in 0..n}

\* Lexemes a document is put together from: the six structural
\* characters, a space, a string, the numbers 0 and 1, and a character
\* that starts no token.
TokenPieces ==
    {<<LBRACKET>>, <<RBRACKET>>, <<LBRACE>>, <<RBRACE>>, <<COLON>>, <<COMMA>>,
     <<SPACE>>, <<QUOTE, Ch_a, QUOTE>>, <<Ch_0>>, <<Ch_0 + 1>>, <<120>>}

TokenDocs ==
    SeqsUpTo(TokenPieces, MaxPieces)

\* The four hex digits of a code point, in upper or lower case.
HexChar(n, upper) ==
    IF n < 10 THEN Ch_0 + n
    ELSE IF upper THEN Ch_A + (n - 10) ELSE Ch_a + (n - 10)

Hex4(cp, upper) ==
    <<HexChar(cp \div 4096, upper), HexChar((cp \div 256) % 16, upper),
      HexChar((cp \div 16) % 16, upper), HexChar(cp % 16, upper)>>

Raw(bytes) ==
    [k |-> "raw", v |-> bytes, cp |-> 0]

Esc(c) ==
    [k |-> "esc", v |-> <<c>>, cp |-> 0]

Uni(cp, upper) ==
    [k |-> "u", v |-> Hex4(cp, upper), cp |-> cp]

HighSurrogates ==
    {55296, 55357, 56319}

LowSurrogates ==
    {56320, 56832, 57343}

PlainCodepoints ==
    {0, 65, 127, 128, 233, 2047, 2048, 8364, 55295, 57344, 65535}

\* What may stand between the quotes of a string: plain bytes (a, the two
\* bytes of U+00E9, a raw line feed), the eight two-character escapes, two
\* escapes the grammar does not know, \u escapes of plain code points and
\* of surrogates, and a \u escape with a digit that is not hexadecimal.
StringPieces ==
    {Raw(<<Ch_a>>), Raw(<<195, 169>>), Raw(<<LF>>)}
    \cup {Esc(c) : c \in {QUOTE, BACKSLASH, SLASH, Ch_b, Ch_f, Ch_n, Ch_r, Ch_t}}
    \cup {Esc(120), Esc(Ch_0)}
    \cup {Uni(cp, TRUE) : cp \in PlainCodepoints \cup HighSurrogates \cup LowSurrogates}
    \cup {Uni(233, FALSE), Uni(55357, FALSE), Uni(56832, FALSE)}
    \cup {[k |-> "u", v |-> <<Ch_0, Ch_0, 71, Ch_0 + 1>>, cp |-> -1]}

PieceBytes(piece) ==
    CASE piece.k = "raw" -> piece.v
      [] piece.k = "esc" -> <<BACKSLASH>> \o piece.v
      [] piece.k = "u" -> <<BACKSLASH, Ch_u>> \o piece.v

RECURSIVE StringBody(_)
StringBody(pieces) ==
    IF Len(pieces) = 0 THEN <<>>
    ELSE PieceBytes(Head(pieces)) \o StringBody(Tail(pieces))

StringDoc(pieces) ==
    <<QUOTE>> \o StringBody(pieces) \o <<QUOTE>>

StringDocs ==
    SeqsUpTo(StringPieces, MaxStrPieces)

\* Documents of the specification's examples and of the repository's tests.
Samples ==
    <<
       \* "Hello\nWorld"
       <<34, 72, 101, 108, 108, 111, 92, 110, 87, 111, 114, 108, 100, 34>>,
       \* [1, 2,]
       <<91, 49, 44, 32, 50, 44, 93>>,
       \* {"a" 1}
       <<123, 34, 97, 34, 32, 49, 125>>,
       \* 01
       <<48, 49>>,
       \* {
       <<123>>,
       \* {"key": "value"}
       <<123, 34, 107, 101, 121, 34, 58, 32, 34, 118, 97, 108, 117, 101, 34, 125>>,
       \* [1, 2, 3]
       <<91, 49, 44, 32, 50, 44, 32, 51, 93>>,
       \* { invalid json }
       <<123, 32, 105, 110, 118, 97, 108, 105, 100, 32, 106, 115, 111, 110, 32, 125>>,
       \* 123.45
       <<49, 50, 51, 46, 52, 53>>,
       \* "<U+1F600>", the four bytes F0 9F 98 80 between quotes
       <<34, 240, 159, 152, 128, 34>>,
       \* {"a":1,"b":[true,null],"a":"x"}
       <<123, 34, 97, 34, 58, 49, 44, 34, 98, 34, 58, 91, 116, 114, 117, 101, 44, 110, 117, 108, 108, 93, 44, 34, 97, 34, 58, 34, 120, 34, 125>>,
       \* [-0, 1e5, 1.5e-7, 100]
       <<91, 45, 48, 44, 32, 49, 101, 53, 44, 32, 49, 46, 53, 101, 45, 55, 44, 32, 49, 48, 48, 93>>,
       \* {"a\tb":"<U+00E9>\\"} 
       <<123, 34, 97, 92, 116, 98, 34, 58, 34, 195, 169, 92, 92, 34, 125, 32>>,
       \* [[], {}, [{}]]
       <<91, 91, 93, 44, 32, 123, 125, 44, 32, 91, 123, 125, 93, 93>>,
       \* {  
       <<123, 32, 32>>,
       \* {"b":false,"a":{"a":0.25}}
       <<123, 34, 98, 34, 58, 102, 97, 108, 115, 101, 44, 34, 97, 34, 58, 123, 34, 97, 34, 58, 48, 46, 50, 53, 125, 125>>,
       \* "\u1"
       <<34, 92, 117, 49, 34>>,
       \* "a\   (the input ends after the backslash)
       <<34, 97, 92>>,
       \* [1.]
       <<91, 49, 46, 93>>,
       \* "a b/c"
       <<34, 97, 32, 98, 47, 99, 34>>,
       \* "a   (no closing quote)
       <<34, 97>>
    >>

(***************************************************************************)
(* Documents that nest containers                                          *)
(***************************************************************************)
\* The documents nest up to MaxDepth + NestOver containers.
NestOver == 2

RepeatSeq(unit, n) ==
    [i \in 1..(Len(unit) * n) |-> unit[((i - 1) % Len(unit)) + 1]]

NestShapes ==
    {"array", "array_null", "object", "mixed", "sibling", "sibling_object"}

NestDepths ==
    (1..NestOver) \cup ((MaxDepth - NestOver)..(MaxDepth + NestOver))

\* A document of the given shape whose containers nest exactly n deep.
NestDoc(shape, n) ==
    CASE shape = "array" ->
            \* [[[]]]
            RepeatSeq(<<LBRACKET>>, n) \o RepeatSeq(<<RBRACKET>>, n)
      [] shape = "array_null" ->
            \* [[[null]]]
            RepeatSeq(<<LBRACKET>>, n) \o kw_null \o RepeatSeq(<<RBRACKET>>, n)
      [] shape = "object" ->
            \* {"a":{"a":{"a":null}}}
            RepeatSeq(<<LBRACE, QUOTE, Ch_a, QUOTE, COLON>>, n) \o kw_null
            \o RepeatSeq(<<RBRACE>>, n)
      [] shape = "mixed" ->
            \* [{"a":[{"a":null}]}], with one more [ ] around it when n is odd
            (IF n % 2 = 1 THEN <<LBRACKET>> ELSE <<>>)
            \o RepeatSeq(<<LBRACKET, LBRACE, QUOTE, Ch_a, QUOTE, COLON>>, n \div 2)
            \o kw_null
            \o RepeatSeq(<<RBRACE, RBRACKET>>, n \div 2)
            \o (IF n % 2 = 1 THEN <<RBRACKET>> ELSE <<>>)
      [] shape = "sibling" ->
            \* [[],[[],[]]]: every level holds an empty array next to the
            \* array that goes on nesting
            RepeatSeq(<<LBRACKET, LBRACKET, RBRACKET, COMMA>>, n - 1)
            \o <<LBRACKET, RBRACKET>> \o RepeatSeq(<<RBRACKET>>, n - 1)
      [] shape = "sibling_object" ->
            \* [{},[{},{}]]
            RepeatSeq(<<LBRACKET, LBRACE, RBRACE, COMMA>>, n - 1)
            \o <<LBRACE, RBRACE>> \o RepeatSeq(<<RBRACKET>>, n - 1)

(***************************************************************************)
(* builder.hpp                                                             *)
(***************************************************************************)
MaxBuildOps == 4

\* The values add() is called with: nullptr, true, 1, "a", the two bytes
\* of U+00E9, and a string of a quote and the byte 0x01.
BuildValues ==
    {make_null, make_bool(TRUE), make_number(Double(FALSE, 1, 0)),
     make_string(<<Ch_a>>), make_string(<<195, 169>>), make_string(<<QUOTE, 1>>)}

BuildKeys ==
    {<<Ch_a>>, <<Ch_b>>}

Builder(kind, items) ==
    [kind |-> kind, items |-> items]

TopBuilder ==
    builders[Len(builders)]

ReplaceTop(b) ==
    [builders EXCEPT ![Len(builders)] = b]

\* build_array(arena) and build_object(arena)
build_array ==
    /\ pc = "build"
    /\ access.op = "none"
    /\ nbuild < MaxBuildOps
    /\ builders' = Append(builders, Builder("array", <<>>))
    /\ nbuild' = nbuild + 1
    /\ last' = "build_array"
    /\ UNCHANGED <<lexed, arena, allocs, input_, tk, depth_, stack, pc, ret, result, phase,
                   orig,
                   char_signed, doc, built, access>>

build_object ==
    /\ pc = "build"
    /\ access.op = "none"
    /\ nbuild < MaxBuildOps
    /\ builders' = Append(builders, Builder("object", <<>>))
    /\ nbuild' = nbuild + 1
    /\ last' = "build_object"
    /\ UNCHANGED <<lexed, arena, allocs, input_, tk, depth_, stack, pc, ret, result, phase,
                   orig,
                   char_signed, doc, built, access>>

\* ArrayBuilder::add for nullptr_t, bool, double, int, string_view
ArrayBuilder_add ==
    /\ pc = "build"
    /\ access.op = "none"
    /\ nbuild < MaxBuildOps
    /\ Len(builders) > 0
    /\ TopBuilder.kind = "array"
    /\ \E value \in BuildValues :
          builders' = ReplaceTop(Builder("array", Append(TopBuilder.items, value)))
    /\ nbuild' = nbuild + 1
    /\ last' = "ArrayBuilder_add"
    /\ UNCHANGED <<lexed, arena, allocs, input_, tk, depth_, stack, pc, ret, result, phase,
                   orig,
                   char_signed, doc, built, access>>

\* ObjectBuilder::add_pair
RECURSIVE add_pair_replace(_, _, _)
add_pair_replace(pairs, key, value) ==
    IF Len(pairs) = 0 THEN <<ObjectPair(key, value)>>
    ELSE IF Head(pairs).key = key THEN <<ObjectPair(key, value)>> \o Tail(pairs)
    ELSE <<Head(pairs)>> \o add_pair_replace(Tail(pairs), key, value)

add_pair(pairs, key, value) ==
    Append(pairs, ObjectPair(key, value))

\* ObjectBuilder::add for nullptr_t, bool, double, int, string_view
ObjectBuilder_add ==
    /\ pc = "build"
    /\ access.op = "none"
    /\ nbuild < MaxBuildOps
    /\ Len(builders) > 0
    /\ TopBuilder.kind = "object"
    /\ \E key \in BuildKeys, value \in BuildValues :
          builders' = ReplaceTop(Builder("object", add_pair(TopBuilder.items, key, value)))
    /\ nbuild' = nbuild + 1
    /\ last' = "ObjectBuilder_add"
    /\ UNCHANGED <<lexed, arena, allocs, input_, tk, depth_, stack, pc, ret, result, phase,
                   orig,
                   char_signed, doc, built, access>>

\* ArrayBuilder::add(Node*) and ObjectBuilder::add(key, Node*), called
\* with the node the last build() returned, or with nullptr when there is
\* none: a null node is not added.
add_node ==
    /\ pc = "build"
    /\ access.op = "none"
    /\ nbuild < MaxBuildOps
    /\ Len(builders) > 0
    /\ IF ~built.ok THEN builders' = builders
       ELSE IF TopBuilder.kind = "array" THEN
            builders' = ReplaceTop(Builder("array", Append(TopBuilder.items, built.node)))
       ELSE \E key \in BuildKeys :
            builders' = ReplaceTop(Builder("object", add_pair(TopBuilder.items, key, built.node)))
    /\ nbuild' = nbuild + 1
    /\ last' = "add_node"
    /\ UNCHANGED <<lexed, arena, allocs, input_, tk, depth_, stack, pc, ret, result, phase,
                   orig,
                   char_signed, doc, built, access>>

\* ArrayBuilder::build and ObjectBuilder::build: the items are copied to
\* an arena array (never a null pointer) in the order they were added.
\* The builder is not used again afterwards.
build_node(b) ==
    IF b.kind = "array" THEN make_array(b.items, FALSE) ELSE make_object(b.items, FALSE)

build ==
    /\ pc = "build"
    /\ access.op = "none"
    /\ Len(builders) > 0
    /\ built' = Ok(build_node(TopBuilder))
    /\ builders' = SubSeq(builders, 1, Len(builders) - 1)
    /\ last' = "build"
    /\ UNCHANGED <<lexed, arena, allocs, input_, tk, depth_, stack, pc, ret, result, phase,
                   orig,
                   char_signed, doc, nbuild, access>>

(***************************************************************************)
(* What the caller does with a tree                                        *)
(***************************************************************************)
\* The root the caller holds: what parse returned, or what build returned
\* once no builder is in use.
Held ==
    IF phase = "build" THEN (IF Len(builders) = 0 THEN built ELSE NoResult)
    ELSE IF pc = "done" THEN result
    ELSE NoResult

\* The nodes of a tree.
RECURSIVE SubNodes(_)
SubNodes(node) ==
    {node} \cup
    (CASE node.type = "Array" ->
            UNION {SubNodes(node.array_val.data[i]) : i \in 1..node.array_val.size}
       [] node.type = "Object" ->
            UNION {SubNodes(node.object_val.data[i].value) : i \in 1..node.object_val.size}
       [] OTHER -> {})

\* The accessors are const and leave the tree alone, so the caller is taken
\* to write or extend only a tree it has not looked into yet.
Untouched ==
    access.op = "none"

\* json::write(root, pretty), followed by json::parse of the text.  The
\* build fixes whether plain char is signed; the model fixes it here,
\* where write_string compares a char with 0x20.
write ==
    /\ phase \in {"first", "build"}
    /\ Held.ok
    /\ Untouched
    /\ \E pretty \in BOOLEAN, signed \in BOOLEAN :
        /\ input_' = Writer_write(Held.node, pretty, signed)
        /\ doc' = [kind |-> "written", pretty |-> pretty]
        /\ char_signed' = signed
    /\ orig' = Held.node
    /\ phase' = "reparse"
    /\ pc' = "parse"
    /\ last' = "write"
    /\ UNCHANGED <<lexed, arena, allocs, tk, depth_, stack, ret, result, builders, built,
                   nbuild, access>>

LookupKeys ==
    {<<Ch_a>>, <<Ch_b>>, <<Ch_a, Ch_b>>, <<>>}

\* No Tokenizer is in use apart from the parser's.
NoLex ==
    [on |-> FALSE]

NoAccess ==
    [op |-> "none", node |-> NoNode, key |-> <<>>, index |-> 0,
     res |-> AccessError("None")]

\* operator[](key) on a node of the tree
lookup ==
    /\ Held.ok
    /\ Untouched
    /\ \E node \in SubNodes(Held.node), key \in LookupKeys :
          access' = [op |-> "index_key", node |-> node, key |-> key, index |-> 0,
                     res |-> index_key(node, key)]
    /\ last' = "lookup"
    /\ UNCHANGED <<lexed, arena, allocs, input_, tk, depth_, stack, pc, ret, result, phase,
                   orig,
                   char_signed, doc, builders, built, nbuild>>

\* The node type each typed accessor is for.
TypedAccessors ==
    [as_bool |-> "Bool", as_number |-> "Number", as_string |-> "String",
     as_array |-> "Array", as_object |-> "Object"]

typed_accessor(op, node) ==
    CASE op = "as_bool" -> as_bool(node)
      [] op = "as_number" -> as_number(node)
      [] op = "as_string" -> as_string(node)
      [] op = "as_array" -> as_array(node)
      [] op = "as_object" -> as_object(node)

\* as_bool(), as_number(), as_string(), as_array() or as_object() on a node
\* of the tree
typed_access ==
    /\ Held.ok
    /\ Untouched
    /\ \E node \in SubNodes(Held.node), op \in DOMAIN TypedAccessors :
          access' = [op |-> op, node |-> node, key |-> <<>>, index |-> 0,
                     res |-> typed_accessor(op, node)]
    /\ last' = "typed_access"
    /\ UNCHANGED <<lexed, arena, allocs, input_, tk, depth_, stack, pc, ret, result, phase,
                   orig,
                   char_signed, doc, builders, built, nbuild>>

MaxIndex == 5

\* operator[](index) on a node of the tree
index_access ==
    /\ Held.ok
    /\ Untouched
    /\ \E node \in SubNodes(Held.node), index \in 0..MaxIndex :
          access' = [op |-> "index_at", node |-> node, key |-> <<>>, index |-> index,
                     res |-> index_at(node, index)]
    /\ last' = "index_access"
    /\ UNCHANGED <<lexed, arena, allocs, input_, tk, depth_, stack, pc, ret, result, phase,
                   orig,
                   char_signed, doc, builders, built, nbuild>>

(***************************************************************************)
(* arena.hpp : Arena                                                       *)
(* Addresses are numbers.  The record of an arena holds block_size_,       *)
(* current_, remaining_ and blocks_ (each block with its base and size),   *)
(* and with them the heap: brk, the lowest address ::operator new has not  *)
(* handed out, and heap, the blocks handed out and not deleted.            *)
(***************************************************************************)
DefaultBlockSize == 65536

\* The alignment of what ::operator new returns.
NewAlignment == 16

\* (addr + alignment - 1) & ~(alignment - 1), alignment a power of two
AlignUp(addr, alignment) ==
    ((addr + alignment - 1) \div alignment) * alignment

\* ::operator new(size): a block at an aligned address, gap bytes above the
\* last one.
operator_new(a, size, gap) ==
    [base |-> a.brk + gap, size |-> size]

\* The heap after ::operator new(size); a block of no bytes still has an
\* address of its own.
heap_after_new(a, size, gap) ==
    [a EXCEPT !.brk = a.brk + gap + AlignUp(IF size = 0 THEN 1 ELSE size, NewAlignment),
              !.heap = @ \cup {operator_new(a, size, gap)}]

allocate_block(a, gap) ==
    [heap_after_new(a, a.block_size_, gap) EXCEPT
        !.blocks_ = Append(@, operator_new(a, a.block_size_, gap)),
        !.current_ = a.brk + gap,
        !.remaining_ = a.block_size_]

\* if (padding + size > remaining_)
exhausted_ignoring_padding(a, padding, size) ==
    size > a.remaining_

exhausted(a, padding, size) ==
    padding + size > a.remaining_

\* "Large allocation - dedicated block"
alloc_large(a, size, gap) ==
    [arena |-> [heap_after_new(a, size, gap) EXCEPT
                    !.blocks_ = Append(@, operator_new(a, size, gap))],
     result |-> a.brk + gap]

\* The pointer bump.
alloc_bump(a, padding, size) ==
    [arena |-> [a EXCEPT !.current_ = @ + padding + size,
                         !.remaining_ = @ - padding - size],
     result |-> a.current_ + padding]

\* alloc<T>(count) with alignment = alignof(T), size = sizeof(T) * count:
\* [arena, result]
RECURSIVE alloc(_, _, _, _)
alloc(a, alignment, size, gap) ==
    IF exhausted(a, AlignUp(a.current_, alignment) - a.current_, size) THEN
        IF size > a.block_size_ THEN alloc_large(a, size, gap)
        ELSE alloc(allocate_block(a, gap), alignment, size, gap)
    ELSE alloc_bump(a, AlignUp(a.current_, alignment) - a.current_, size)

reset(a) ==
    IF Len(a.blocks_) > 0
    THEN [a EXCEPT !.current_ = a.blocks_[1].base, !.remaining_ = a.block_size_]
    ELSE a

\* Arena(block_size); the heap starts at the address NewAlignment.
Arena(block_size, gap) ==
    allocate_block([block_size_ |-> block_size, current_ |-> 0, remaining_ |-> 0,
                    blocks_ |-> <<>>, brk |-> NewAlignment, heap |-> {},
                    alive |-> TRUE], gap)

\* ~Arena(): every block is deleted.
destroy(a) ==
    [a EXCEPT !.heap = @ \ {a.blocks_[i] : i \in 1..Len(a.blocks_)},
              !.alive = FALSE]

(***************************************************************************)
(* Callers of the arena                                                    *)
(***************************************************************************)
MaxArenaOps == 5

\* Block sizes of the arenas under study.
ArenaBlockSizes ==
    {NewAlignment, NewAlignment + 4}

\* An alignment above that of ::operator new: struct alignas(32) T.
OverAlignment == 2 * NewAlignment

\* alignof(T) and sizeof(T) * count of the calls alloc<char>(1),
\* alloc<Node*>(count) for up to two elements and alloc<Node>(), and of
\* alloc<T>(1) for a T of OverAlignment bytes with that alignment.
AllocRequests ==
    {[alignment |-> 1, size |-> 1]}
    \cup {[alignment |-> 8, size |-> 8 * n] : n \in {0, 2, 3}}
    \cup {[alignment |-> OverAlignment, size |-> OverAlignment]}

\* What ::operator new may leave between two blocks.
Gaps ==
    {0, NewAlignment}

\* The regions alloc has returned since the last reset, the requests made
\* since then, the requests made before the last reset and the number of
\* blocks then, the number of resets and the number of calls.
NoAllocs ==
    [regions |-> <<>>, log |-> <<>>, prev_log |-> <<>>, prev_blocks |-> 0,
     resets |-> 0, nops |-> 0]

Arena_alloc ==
    /\ pc = "arena"
    /\ arena.alive
    /\ allocs.nops < MaxArenaOps
    /\ \E req \in AllocRequests, gap \in Gaps :
        \E r \in {alloc(arena, req.alignment, req.size, gap)} :
            /\ arena' = r.arena
            /\ allocs' = [allocs EXCEPT
                            !.regions = Append(@, [addr |-> r.result, size |-> req.size]),
                            !.log = Append(@, req),
                            !.nops = @ + 1]
    /\ last' = "Arena_alloc"
    /\ UNCHANGED <<input_, tk, depth_, stack, pc, ret, result, phase, orig,
                   char_signed, doc, builders, built, nbuild, access, lexed>>

Arena_reset ==
    /\ pc = "arena"
    /\ arena.alive
    /\ allocs.nops < MaxArenaOps
    /\ arena' = reset(arena)
    /\ allocs' = [allocs EXCEPT !.regions = <<>>, !.log = <<>>,
                                !.prev_log = allocs.log,
                                !.prev_blocks = Len(arena.blocks_),
                                !.resets = @ + 1, !.nops = @ + 1]
    /\ last' = "Arena_reset"
    /\ UNCHANGED <<input_, tk, depth_, stack, pc, ret, result, phase, orig,
                   char_signed, doc, builders, built, nbuild, access, lexed>>

Arena_destroy ==
    /\ pc = "arena"
    /\ arena.alive
    /\ arena' = destroy(arena)
    /\ allocs' = allocs
    /\ last' = "Arena_destroy"
    /\ UNCHANGED <<input_, tk, depth_, stack, pc, ret, result, phase, orig,
                   char_signed, doc, builders, built, nbuild, access, lexed>>

(***************************************************************************)
(* A Tokenizer used on its own: Tokenizer(input) has no arena              *)
(* (arena_ == nullptr), Tokenizer(input, arena) has one.                   *)
(***************************************************************************)
\* content_size * 4 + 3, "Max UTF-8 expansion + quotes + null"
buffer_size_content_only(content_size) ==
    content_size

buffer_size(content_size) ==
    content_size * 4 + 3

\* The highest index read without the guard.
last_read_unguarded(s, p) ==
    p

\* The highest index a read guarded by pos_ < input_.size() can have had
\* when it stopped at p.
last_read(s, p) ==
    IF p < Len(s) THEN p ELSE Len(s) - 1

\* The slow path of read_string: the buffer it asks the arena for, the
\* number of bytes it writes through write_ptr (the closing quote and the
\* NUL included when it gets there), the highest index of input_ it reads.
string_buffer_use(p, scan, u) ==
    [needed |-> TRUE,
     size |-> buffer_size(scan.scan_pos - (p + 1)),
     content_size |-> scan.scan_pos - (p + 1),
     written |-> IF u.ok THEN Len(u.buf) + 2 ELSE Len(u.buf),
     top |-> u.top]

no_buffer(top) ==
    [needed |-> FALSE, size |-> 0, content_size |-> 0, written |-> 0, top |-> top]

string_buffer_scanned(s, p, scan) ==
    IF scan.err \/ scan.scan_pos >= Len(s) \/ ~scan.has_escapes
    THEN no_buffer(last_read(s, scan.scan_pos))
    ELSE string_buffer_use(p, scan,
                           unescape(s, p + 1, scan.scan_pos, <<QUOTE>>, scan.scan_pos))

\* What the call of next() that finds its token at p, with the outcome r,
\* does with the arena and how far it reads.
next_buffer(s, p, r) ==
    IF at_end(s, p) THEN no_buffer(Len(s) - 1)
    ELSE IF At(s, p) = QUOTE THEN string_buffer_scanned(s, p, scan_string(s, p + 1, FALSE))
    ELSE IF r.ok /\ r.token.type # "Number" THEN no_buffer(r.pos - 1)
    ELSE no_buffer(last_read(s, r.pos))

\* Where the bytes of the token text are: in input_, in the arena buffer at
\* addr, or in a string literal of the program.
token_text_at(r, b, addr) ==
    IF ~r.ok THEN [where |-> "none", addr |-> 0]
    ELSE IF b.needed THEN [where |-> "arena", addr |-> addr]
    ELSE IF r.token.type \in {"String", "Number", "True", "False", "Null"}
    THEN [where |-> "input", addr |-> r.token.offset]
    ELSE [where |-> "literal", addr |-> 0]

\* arena_->alloc<char>(...) with arena_ == nullptr is undefined: the call
\* faults, or goes on with whatever the fields of the absent arena hold.
NullArenaOutcomes ==
    {"fault", "proceeds"}

MaxLexCalls == 4

NewLex(has_arena) ==
    [on |-> TRUE, has_arena |-> has_arena, fault |-> FALSE, null_deref |-> FALSE,
     before |-> 0, res |-> NoResult, ended |-> FALSE, buffer |-> no_buffer(-1),
     text_at |-> [where |-> "none", addr |-> 0], nallocs |-> 0]

\* The call returned r.
lex_returned(r, b, at, deref) ==
    [lexed EXCEPT !.before = tk.pos, !.res = r, !.buffer = b, !.text_at = at,
                  !.null_deref = deref,
                  !.ended = lexed.ended \/ (lexed.res.ok /\ lexed.res.token.type = "End"),
                  !.nallocs = IF b.needed /\ lexed.has_arena THEN 1 ELSE 0]

\* Tokenizer::next()
Tokenizer_next ==
    /\ pc = "lex"
    /\ lexed.on
    /\ ~lexed.fault
    /\ tk.reqs < MaxLexCalls
    /\ \E p \in {skip_whitespace(input_, tk.pos)} :
       \E r \in {next_token(input_, p)} :
       \E b \in {next_buffer(input_, p, r)} :
        IF ~b.needed THEN
            /\ tk' = [tk EXCEPT !.pos = r.pos, !.reqs = @ + 1]
            /\ lexed' = lex_returned(r, b, token_text_at(r, b, 0), FALSE)
            /\ UNCHANGED <<arena, allocs>>
        ELSE IF lexed.has_arena THEN
            \E a \in {alloc(arena, 1, b.size, 0)} :
                /\ tk' = [tk EXCEPT !.pos = r.pos, !.reqs = @ + 1]
                /\ lexed' = lex_returned(r, b, token_text_at(r, b, a.result), FALSE)
                /\ arena' = a.arena
                /\ allocs' = [allocs EXCEPT
                                !.regions = Append(@, [addr |-> a.result, size |-> b.size])]
        ELSE
            \E outcome \in NullArenaOutcomes :
                /\ tk' = IF outcome = "fault" THEN [tk EXCEPT !.reqs = @ + 1]
                         ELSE [tk EXCEPT !.pos = r.pos, !.reqs = @ + 1]
                /\ lexed' = IF outcome = "fault"
                            THEN [lexed EXCEPT !.before = tk.pos, !.fault = TRUE,
                                               !.null_deref = TRUE, !.buffer = b]
                            ELSE lex_returned(r, b, token_text_at(r, b, 0), TRUE)
                /\ UNCHANGED <<arena, allocs>>
    /\ last' = "Tokenizer_next"
    /\ UNCHANGED <<input_, depth_, stack, pc, ret, result, phase, orig,
                   char_signed, doc, builders, built, nbuild, access>>

\* Inputs for a tokenizer: every string of up to MaxLexLen bytes of
\* LexAlphabet, number texts with each part present, absent or cut short,
\* the keywords cut short or misspelt, whitespace in front of bytes that
\* do and do not start a token, and the string and sample documents.
MaxLexLen == 3

LexAlphabet ==
    {QUOTE, BACKSLASH, Ch_a, SPACE, MINUS, Ch_0, Ch_0 + 1, DOT, Ch_e, PLUS,
     LBRACKET, 195}

NumberDocs ==
    {sign \o int \o frac \o exp \o tail :
        sign \in {<<>>, <<MINUS>>},
        int \in {<<>>, <<Ch_0>>, <<Ch_0 + 1>>, <<Ch_0 + 1, Ch_0>>, <<Ch_0, Ch_0 + 1>>},
        frac \in {<<>>, <<DOT>>, <<DOT, Ch_0>>, <<DOT, Ch_0, Ch_9>>},
        exp \in {<<>>, <<Ch_e>>, <<Ch_e, Ch_0 + 1>>, <<Ch_E, PLUS, Ch_0 + 1>>,
                 <<Ch_e, MINUS>>, <<Ch_e, MINUS, Ch_0 + 1, Ch_0>>},
        tail \in {<<>>, <<COMMA>>, <<120>>, <<DOT>>, <<Ch_e>>, <<195>>}}

KeywordDocs ==
    {SubSeq(kwn[1], 1, kwn[2]) \o tail :
        kwn \in {<<kw, n>> \in {kw_true, kw_false, kw_null} \X (0..5) : n <= Len(kw)},
        tail \in {<<>>, <<120>>, <<SPACE>>, <<Ch_e>>, <<COMMA>>}}

WhitespaceDocs ==
    {<<w1, w2, c>> :
        w1 \in {SPACE, TAB, LF, CR}, w2 \in {SPACE, TAB, LF, CR},
        c \in {0, 11, FF, 120, 160, 195, LBRACE, RBRACE, LBRACKET, RBRACKET,
               COLON, COMMA}}

LexInputs ==
    SeqsUpTo(LexAlphabet, MaxLexLen) \cup NumberDocs \cup KeywordDocs
    \cup WhitespaceDocs \cup {StringDoc(ps) : ps \in StringDocs}
    \cup {Samples[i] : i \in 1..Len(Samples)}

(***************************************************************************)
(* Specifications                                                          *)
(***************************************************************************)
Start(d, text) ==
    /\ input_ = text
    /\ doc = d
    /\ tk = NewTk
    /\ depth_ = 0
    /\ stack = <<>>
    /\ pc = "parse"
    /\ ret = NoResult
    /\ result = NoResult
    /\ phase = "first"
    /\ orig = NoNode
    /\ builders = <<>>
    /\ built = NoResult
    /\ nbuild = 0
    /\ access = NoAccess
    /\ arena = Arena(DefaultBlockSize, 0)
    /\ allocs = NoAllocs
    /\ lexed = NoLex
    /\ last = "init"

StartBuild ==
    /\ input_ = <<>>
    /\ doc = [kind |-> "built"]
    /\ tk = NewTk
    /\ depth_ = 0
    /\ stack = <<>>
    /\ pc = "build"
    /\ ret = NoResult
    /\ result = NoResult
    /\ phase = "build"
    /\ orig = NoNode
    /\ builders = <<>>
    /\ built = NoResult
    /\ nbuild = 0
    /\ access = NoAccess
    /\ arena = Arena(DefaultBlockSize, 0)
    /\ allocs = NoAllocs
    /\ lexed = NoLex
    /\ last = "init"

Init ==
    /\ char_signed = "unset"
    /\ \/ \E ps \in TokenDocs : Start([kind |-> "tokens", pieces |-> ps], Flatten(ps))
       \/ \E ps \in StringDocs : Start([kind |-> "string", pieces |-> ps], StringDoc(ps))
       \/ \E i \in 1..Len(Samples) : Start([kind |-> "sample", index |-> i], Samples[i])
       \/ StartBuild

NextParse ==
    \/ parse
    \/ parse_value
    \/ parse_array
    \/ parse_array_loop
    \/ parse_object
    \/ parse_object_loop
    \/ parse_return

Next ==
    \/ NextParse
    \/ write
    \/ lookup
    \/ build_array
    \/ build_object
    \/ ArrayBuilder_add
    \/ ObjectBuilder_add
    \/ add_node
    \/ build

Spec ==
    Init /\ [][Next]_vars

\* Documents that nest containers around the depth limit.
InitDepth ==
    /\ char_signed = "unset"
    /\ \E shape \in NestShapes, n \in NestDepths :
          Start([kind |-> "nest", shape |-> shape, depth |-> n], NestDoc(shape, n))

SpecDepth ==
    InitDepth /\ [][NextParse]_vars

\* The sample documents, parsed, and one access to a node of the tree.
InitAccess ==
    /\ char_signed = "unset"
    /\ \E i \in 1..Len(Samples) : Start([kind |-> "sample", index |-> i], Samples[i])

NextAccess ==
    \/ NextParse
    \/ lookup
    \/ typed_access
    \/ index_access

SpecAccess ==
    InitAccess /\ [][NextAccess]_vars

\* A tokenizer on its own, with or without an arena, at the start of an
\* input.
StartLex ==
    /\ input_ \in LexInputs
    /\ doc = [kind |-> "lex"]
    /\ tk = NewTk
    /\ depth_ = 0
    /\ stack = <<>>
    /\ pc = "lex"
    /\ ret = NoResult
    /\ result = NoResult
    /\ phase = "lex"
    /\ orig = NoNode
    /\ builders = <<>>
    /\ built = NoResult
    /\ nbuild = 0
    /\ access = NoAccess
    /\ arena = Arena(DefaultBlockSize, 0)
    /\ allocs = NoAllocs
    /\ \E has_arena \in BOOLEAN : lexed = NewLex(has_arena)
    /\ last = "init"

\* The tokenizer on its own, and the tokenizer under the parser: the string
\* and sample documents and one document nested beyond the depth limit.
InitLex ==
    /\ char_signed = "unset"
    /\ \/ StartLex
       \/ \E ps \in StringDocs : Start([kind |-> "string", pieces |-> ps], StringDoc(ps))
       \/ \E i \in 1..Len(Samples) : Start([kind |-> "sample", index |-> i], Samples[i])
       \/ Start([kind |-> "nest", shape |-> "array", depth |-> MaxDepth + 1],
                NestDoc("array", MaxDepth + 1))

NextLex ==
    \/ Tokenizer_next
    \/ NextParse

SpecLex ==
    InitLex /\ [][NextLex]_vars

\* A freshly constructed arena and the calls made on it.
InitArena ==
    /\ char_signed = "unset"
    /\ input_ = <<>>
    /\ doc = [kind |-> "arena"]
    /\ tk = NewTk
    /\ depth_ = 0
    /\ stack = <<>>
    /\ pc = "arena"
    /\ ret = NoResult
    /\ result = NoResult
    /\ phase = "arena"
    /\ orig = NoNode
    /\ builders = <<>>
    /\ built = NoResult
    /\ nbuild = 0
    /\ access = NoAccess
    /\ \E block_size \in ArenaBlockSizes, gap \in Gaps : arena = Arena(block_size, gap)
    /\ allocs = NoAllocs
    /\ lexed = NoLex
    /\ last = "init"

NextArena ==
    \/ Arena_alloc
    \/ Arena_reset
    \/ Arena_destroy

SpecArena ==
    InitArena /\ [][NextArena]_vars

(***************************************************************************)
(* Value equality of trees: node kind, bool value, number, string bytes,   *)
(* array elements in order, object keys and values in order.  Whether an   *)
(* empty container has storage is not part of the value.                   *)
(***************************************************************************)
RECURSIVE ValueEq(_, _)
ValueEq(a, b) ==
    /\ a.type = b.type
    /\ CASE a.type = "Null" -> TRUE
         [] a.type = "Bool" -> a.bool_val = b.bool_val
         [] a.type = "Number" -> a.number_val = b.number_val
         [] a.type = "String" -> a.string_val = b.string_val
         [] a.type = "Array" ->
                /\ a.array_val.size = b.array_val.size
                /\ \A i \in 1..a.array_val.size :
                      ValueEq(a.array_val.data[i], b.array_val.data[i])
         [] a.type = "Object" ->
                /\ a.object_val.size = b.object_val.size
                /\ \A i \in 1..a.object_val.size :
                      /\ a.object_val.data[i].key = b.object_val.data[i].key
                      /\ ValueEq(a.object_val.data[i].value, b.object_val.data[i].value)

\* The text write() gave has been parsed again.
Reparsed ==
    phase = "reparse" /\ pc = "done"

\* C1: round trip.  For every tree that parse returned for a document or
\* that the builder built, parsing the text that write gives for it, pretty
\* or compact, succeeds and yields a tree that is value-equal to it.
C1_RoundTrip ==
    Reparsed => (result.ok /\ ValueEq(result.node, orig))

\* The round trip holds in a build whose plain char is unsigned.
C1_RoundTripUnsignedChar ==
    (Reparsed /\ char_signed = FALSE) => (result.ok /\ ValueEq(result.node, orig))

\* The round trip holds for trees whose strings and keys are ASCII.
RECURSIVE AsciiOnly(_)
AsciiOnly(node) ==
    CASE node.type = "String" -> \A i \in 1..Len(node.string_val) : node.string_val[i] < 128
      [] node.type = "Array" ->
            \A i \in 1..node.array_val.size : AsciiOnly(node.array_val.data[i])
      [] node.type = "Object" ->
            \A i \in 1..node.object_val.size :
                /\ \A j \in 1..Len(node.object_val.data[i].key) :
                      node.object_val.data[i].key[j] < 128
                /\ AsciiOnly(node.object_val.data[i].value)
      [] OTHER -> TRUE

C1_RoundTripAscii ==
    (Reparsed /\ AsciiOnly(orig)) => (result.ok /\ ValueEq(result.node, orig))

\* C2: depth bound.  A document whose containers (arrays and objects
\* together) nest at most 256 deep parses; one that nests 257 or more deep
\* fails with TooDeep.  Sibling containers do not add to the depth, and
\* the depth counter is back at 0 after a successful parse.
C2_DepthBound ==
    (pc = "done" /\ doc.kind = "nest") =>
        IF doc.depth <= 256
        THEN result.ok /\ depth_ = 0
        ELSE ~result.ok /\ result.error.code = "TooDeep"

C2_Witness ==
    /\ pc = "done"
    /\ doc.kind = "nest"
    /\ doc.shape = "sibling_object"
    /\ doc.depth = 257
    /\ ~result.ok
    /\ result.error.code = "TooDeep"

C2_WitnessDeepest ==
    /\ pc = "done"
    /\ doc.kind = "nest"
    /\ doc.shape = "sibling"
    /\ doc.depth = 256
    /\ result.ok

(***************************************************************************)
(* What a string is to decode to, read off the pieces it was put together  *)
(* from.                                                                   *)
(***************************************************************************)
\* UTF-8 (RFC 3629): the code point's bits, low six at a time from the
\* right, under a lead byte that tells the length.
Utf8(cp) ==
    LET cont(n) == 128 + ((cp \div n) % 64) IN
    IF cp <= 127 THEN <<cp>>
    ELSE IF cp <= 2047 THEN <<192 + cp \div 64, cont(1)>>
    ELSE IF cp <= 65535 THEN <<224 + cp \div 4096, cont(64), cont(1)>>
    ELSE <<240 + cp \div 262144, cont(4096), cont(64), cont(1)>>

\* The byte each two-character escape stands for.
EscapeByte(c) ==
    CASE c = 34 -> 34      \* \" is a quote
      [] c = 92 -> 92      \* \\ is a backslash
      [] c = 47 -> 47      \* \/ is a slash
      [] c = 98 -> 8       \* \b is a backspace
      [] c = 102 -> 12     \* \f is a form feed
      [] c = 110 -> 10     \* \n is a line feed
      [] c = 114 -> 13     \* \r is a carriage return
      [] c = 116 -> 9      \* \t is a tab

EightEscapes ==
    {34, 92, 47, 98, 102, 110, 114, 116}

IsHigh(piece) ==
    piece.k = "u" /\ piece.cp >= 55296 /\ piece.cp <= 56319

IsLow(piece) ==
    piece.k = "u" /\ piece.cp >= 56320 /\ piece.cp <= 57343

IsPlainUni(piece) ==
    piece.k = "u" /\ piece.cp >= 0 /\ ~IsHigh(piece) /\ ~IsLow(piece)

\* A high surrogate that no low-surrogate escape follows at once.
LoneHigh(pieces, i) ==
    IsHigh(pieces[i]) /\ ~(i < Len(pieces) /\ IsLow(pieces[i + 1]))

\* A high surrogate with its low surrogate right behind it.
PairAt(pieces, i) ==
    IsHigh(pieces[i]) /\ i < Len(pieces) /\ IsLow(pieces[i + 1])

\* The low half of a pair.
PairedLow(pieces, i) ==
    IsLow(pieces[i]) /\ i > 1 /\ IsHigh(pieces[i - 1])

PairCodepoint(high, low) ==
    65536 + (high - 55296) * 1024 + (low - 56320)

\* Every piece is one whose decoding is laid down: plain bytes, one of the
\* eight escapes, a \u escape of a code point outside the surrogate
\* ranges, or a surrogate pair.
Decodable(pieces) ==
    \A i \in 1..Len(pieces) :
        \/ pieces[i].k = "raw"
        \/ pieces[i].k = "esc" /\ pieces[i].v[1] \in EightEscapes
        \/ IsPlainUni(pieces[i])
        \/ PairAt(pieces, i)
        \/ PairedLow(pieces, i)

RECURSIVE Decoded(_, _)
Decoded(pieces, i) ==
    IF i > Len(pieces) THEN <<>>
    ELSE IF pieces[i].k = "raw" THEN pieces[i].v \o Decoded(pieces, i + 1)
    ELSE IF pieces[i].k = "esc" THEN <<EscapeByte(pieces[i].v[1])>> \o Decoded(pieces, i + 1)
    ELSE IF PairAt(pieces, i)
    THEN Utf8(PairCodepoint(pieces[i].cp, pieces[i + 1].cp)) \o Decoded(pieces, i + 2)
    ELSE Utf8(pieces[i].cp) \o Decoded(pieces, i + 1)

\* The first parse of a string document has returned.
StringParsed ==
    phase = "first" /\ pc = "done" /\ doc.kind = "string"

HasPair(pieces) ==
    \E i \in 1..Len(pieces) : PairAt(pieces, i)

HasLoneHigh(pieces) ==
    \E i \in 1..Len(pieces) : LoneHigh(pieces, i)

\* C3: surrogate pairs.  In a string, a high-surrogate escape directly
\* followed by a low-surrogate escape decodes to the one code point
\* 0x10000 + ((high - 0xD800) << 10) + (low - 0xDC00), as 4 UTF-8 bytes
\* (\uD83D\uDE00 gives F0 9F 98 80); a high-surrogate escape that no
\* low-surrogate escape follows directly makes the parse fail with
\* InvalidEscape.
C3_SurrogatePairs ==
    StringParsed =>
        /\ (HasPair(doc.pieces) /\ Decodable(doc.pieces)) =>
              /\ result.ok
              /\ result.node.type = "String"
              /\ result.node.string_val = Decoded(doc.pieces, 1)
        /\ (\E i \in 1..Len(doc.pieces) :
                PairAt(doc.pieces, i) /\ Len(doc.pieces) = 2) =>
              Len(result.node.string_val) = 4
        /\ (doc.pieces = <<Uni(55357, TRUE), Uni(56832, TRUE)>>) =>
              result.node.string_val = <<240, 159, 152, 128>>
        /\ HasLoneHigh(doc.pieces) =>
              (~result.ok /\ result.error.code = "InvalidEscape")

C3_Witness ==
    /\ StringParsed
    /\ doc.pieces = <<Uni(55357, TRUE), Uni(56832, TRUE)>>
    /\ result.ok
    /\ result.node.string_val = <<240, 159, 152, 128>>

C3_WitnessLoneHigh ==
    /\ StringParsed
    /\ doc.pieces = <<Uni(55357, TRUE), Raw(<<Ch_a>>)>>
    /\ ~result.ok

HasSurrogate(pieces) ==
    \E i \in 1..Len(pieces) : IsHigh(pieces[i]) \/ IsLow(pieces[i])

HasUnknownEscape(pieces) ==
    \E i \in 1..Len(pieces) :
        pieces[i].k = "esc" /\ pieces[i].v[1] \notin (EightEscapes \cup {117})

\* C4: escape decoding.  In a string without surrogate escapes, each of the
\* eight two-character escapes decodes to its byte, each \uXXXX to the 1 to
\* 3 UTF-8 bytes of its code point, every other byte is copied in place,
\* and the string node holds exactly those bytes ("Hello\nWorld" yields 11
\* bytes); a backslash before any other character makes the parse fail
\* with InvalidEscape.
C4_EscapeDecoding ==
    /\ (StringParsed /\ ~HasSurrogate(doc.pieces)) =>
        /\ Decodable(doc.pieces) =>
              /\ result.ok
              /\ result.node.type = "String"
              /\ result.node.string_val = Decoded(doc.pieces, 1)
        /\ (Len(doc.pieces) = 1 /\ IsPlainUni(doc.pieces[1])) =>
              Len(result.node.string_val) \in 1..3
        /\ HasUnknownEscape(doc.pieces) =>
              (~result.ok /\ result.error.code = "InvalidEscape")
    /\ (phase = "first" /\ pc = "done" /\ input_ = Samples[1]) =>
        /\ result.ok
        /\ result.node.type = "String"
        /\ result.node.string_val =
              <<72, 101, 108, 108, 111, 10, 87, 111, 114, 108, 100>>

C4_Witness ==
    /\ StringParsed
    /\ doc.pieces = <<Esc(110), Uni(8364, TRUE)>>
    /\ result.ok
    /\ result.node.string_val = <<10, 226, 130, 172>>

(***************************************************************************)
(* Malformed documents                                                     *)
(***************************************************************************)
\* The first parse of the document has returned.
FirstParsed ==
    phase = "first" /\ pc = "done"

Failed(code) ==
    ~result.ok /\ result.error.code = code

FailedAt(code, offset) ==
    ~result.ok /\ result.error.code = code /\ result.error.offset = offset

\* The document starts with a number whose integer part is a 0 that a
\* digit follows: 0d or -0d.
LeadingZero(s) ==
    LET q == IF Len(s) > 0 /\ At(s, 0) = 45 THEN 1 ELSE 0 IN
    /\ q + 1 < Len(s)
    /\ At(s, q) = 48
    /\ At(s, q + 1) \in 48..57

\* C5: leading zero.  Parsing a number whose integer part is a 0 directly
\* followed by another digit (01) fails with InvalidNumber.
C5_LeadingZero ==
    (FirstParsed /\ LeadingZero(input_)) => Failed("InvalidNumber")

\* The document is a { followed by nothing but spaces.
TruncatedObject(s) ==
    /\ Len(s) > 0
    /\ s[1] = 123
    /\ \A i \in 2..Len(s) : s[i] \in {32, 9, 10, 13}

\* C6: truncated object.  Parsing { followed by nothing but optional
\* whitespace fails with UnexpectedEOF or ExpectedValue.
C6_TruncatedObject ==
    (FirstParsed /\ TruncatedObject(input_)) =>
        (Failed("UnexpectedEOF") \/ Failed("ExpectedValue"))

\* The document starts with {, then a string, then a token other than a
\* colon before the input ends; the value is that token's offset, or -1
\* for other documents.
MissingColonAt(s) ==
    LET t1 == next(s, 0) IN
    IF ~(t1.ok /\ t1.token.type = "LeftBrace") THEN -1
    ELSE LET t2 == next(s, t1.pos) IN
    IF ~(t2.ok /\ t2.token.type = "String") THEN -1
    ELSE LET t3 == next(s, t2.pos) IN
    IF ~(t3.ok /\ t3.token.type \notin {"Colon", "End"}) THEN -1
    ELSE t3.token.offset

\* C7: missing colon.  In an object, a string key whose next token is not
\* a colon ({"a" 1}) makes the parse fail with ExpectedColon at the offset
\* of the token found in place of the colon.
C7_MissingColon ==
    (FirstParsed /\ MissingColonAt(input_) >= 0) =>
        FailedAt("ExpectedColon", MissingColonAt(input_))

ValueStart ==
    {"Null", "True", "False", "Number", "String", "LeftBracket", "LeftBrace"}

\* parse_value has just looked at a token that starts no value.  (A token
\* that parse_value accepts is consumed, or is a bracket, a brace or a
\* number.)
NoValueAhead ==
    last = "parse_value" /\ tk.has /\ tk.cur.type \notin ValueStart

\* C8: expected value.  Wherever a value is required and the lookahead
\* token starts none, the parse fails with ExpectedValue at that token's
\* offset; an array in which ] directly follows a comma ([1, 2,]) fails
\* with ExpectedValue at the offset of the ].
C8_ExpectedValue ==
    /\ NoValueAhead =>
          /\ pc = "return"
          /\ ~ret.ok
          /\ ret.error.code = "ExpectedValue"
          /\ ret.error.offset = tk.cur.offset
    /\ (pc = "done" /\ ~ret.ok) => result = ret
    /\ (FirstParsed /\ input_ = Samples[2]) => FailedAt("ExpectedValue", 6)
    /\ (FirstParsed /\ doc.kind = "tokens"
        /\ doc.pieces = <<(<<91>>), (<<49>>), (<<44>>), (<<93>>)>>) =>
          FailedAt("ExpectedValue", 3)

C8_Witness ==
    /\ FirstParsed
    /\ input_ = Samples[2]
    /\ tk.has
    /\ tk.cur.type = "RightBracket"
    /\ FailedAt("ExpectedValue", 6)

\* Parser::parse is about to look past the root value it has parsed.
RootValueParsed ==
    /\ pc = "return"
    /\ Len(stack) = 1
    /\ Top.fn = "parse"
    /\ ret.ok

\* The offset of what follows the root value; the length of the input
\* when only whitespace follows.
ContentAfterRoot ==
    skip_whitespace(input_, tk.pos)

\* C9 as stated: parse succeeds only if the token after the one complete
\* value is the end of the input; any content after the first value makes
\* parse fail with UnexpectedToken at the offset of that content.
C9_SingleRoot_Original ==
    [][RootValueParsed =>
          IF ContentAfterRoot >= Len(input_)
          THEN result' = ret
          ELSE /\ ~result'.ok
               /\ result'.error.code = "UnexpectedToken"
               /\ result'.error.offset = ContentAfterRoot]_vars

\* C9 amended: parse succeeds only if the token after the one complete
\* value is the end of the input (only whitespace remains); content after
\* the first value makes parse fail, with UnexpectedToken at the offset of
\* that content when the content starts with a well-formed token, and with
\* the tokenizer's error for it when it does not.
C9_SingleRoot ==
    /\ [](pc = "done" /\ result.ok =>
            /\ skip_whitespace(input_, tk.pos) >= Len(input_)
            /\ tk.has
            /\ tk.cur.type = "End")
    /\ [][RootValueParsed =>
            /\ ~tk.has
            /\ IF ContentAfterRoot >= Len(input_)
               THEN result' = ret
               ELSE /\ ~result'.ok
                    /\ IF next(input_, tk.pos).ok
                       THEN /\ result'.error.code = "UnexpectedToken"
                            /\ result'.error.offset = ContentAfterRoot
                       ELSE result'.error = next(input_, tk.pos).error]_vars

\* A complete value followed by a character that starts no token: 1x.
C9_Witness ==
    /\ FirstParsed
    /\ last = "parse_return"
    /\ input_ = <<49, 120>>
    /\ ret.ok
    /\ FailedAt("InvalidToken", 1)

\* A complete value followed by a second value: [] 1.
C9_WitnessToken ==
    /\ FirstParsed
    /\ last = "parse_return"
    /\ input_ = <<91, 93, 32, 49>>
    /\ ret.ok
    /\ FailedAt("UnexpectedToken", 3)

(***************************************************************************)
(* Keyed access                                                            *)
(***************************************************************************)
\* The positions of the pairs of an object whose key is the given bytes.
Matches(node, key) ==
    {i \in 1..node.object_val.size : node.object_val.data[i].key = key}

Least(S) ==
    CHOOSE i \in S : \A j \in S : i <= j

\* C10: keyed access, first match.  On an object node, operator[](k)
\* returns KeyNotFound when no pair's key equals k, and otherwise the value
\* of the first pair, in stored order, whose key equals k.
C10_FirstMatch ==
    (access.op = "index_key" /\ access.node.type = "Object") =>
        IF Matches(access.node, access.key) = {}
        THEN access.res = AccessError("KeyNotFound")
        ELSE access.res =
                AccessOk(access.node.object_val.data[
                            Least(Matches(access.node, access.key))].value)

\* A lookup of a key that two pairs with different values carry.
C10_Witness ==
    /\ access.op = "index_key"
    /\ access.node.type = "Object"
    /\ \E i, j \in Matches(access.node, access.key) :
          /\ i < j
          /\ access.node.object_val.data[i].value # access.node.object_val.data[j].value
    /\ access.res.ok

C10_WitnessNotFound ==
    /\ access.op = "index_key"
    /\ access.node.type = "Object"
    /\ access.node.object_val.size > 0
    /\ access.res = AccessError("KeyNotFound")

Greatest(S) ==
    CHOOSE i \in S : \A j \in S : i >= j

\* A keyed lookup on an object in which several pairs carry the key.
DuplicateLookup ==
    /\ access.op = "index_key"
    /\ access.node.type = "Object"
    /\ Cardinality(Matches(access.node, access.key)) >= 2

\* C11 as the specification words it: with several pairs of the same key,
\* lookup returns the value of the last such pair.
C11_LastMatch_Original ==
    DuplicateLookup =>
        access.res =
            AccessOk(access.node.object_val.data[
                        Greatest(Matches(access.node, access.key))].value)

\* C11: keyed access, duplicate keys.  When an object holds several pairs
\* with the same key, lookup of that key returns the value of the first
\* such pair in stored order, and the tree the caller holds still contains
\* the object with all of its pairs.
C11_DuplicateKeys ==
    DuplicateLookup =>
        /\ access.res =
              AccessOk(access.node.object_val.data[
                          Least(Matches(access.node, access.key))].value)
        /\ Held.ok
        /\ access.node \in SubNodes(Held.node)

\* A built object with two pairs of one key and different values, looked up.
C11_Witness ==
    /\ DuplicateLookup
    /\ doc.kind = "built"
    /\ access.node.object_val.data[Least(Matches(access.node, access.key))].value
          # access.node.object_val.data[Greatest(Matches(access.node, access.key))].value
    /\ access.res.ok

(***************************************************************************)
(* Order of elements and pairs                                             *)
(***************************************************************************)
\* Two trees list the same kinds of nodes and the same keys in the same
\* order, container by container.
RECURSIVE SameOrder(_, _)
SameOrder(a, b) ==
    /\ a.type = b.type
    /\ CASE a.type = "Array" ->
              /\ a.array_val.size = b.array_val.size
              /\ \A i \in 1..a.array_val.size :
                    SameOrder(a.array_val.data[i], b.array_val.data[i])
         [] a.type = "Object" ->
              /\ a.object_val.size = b.object_val.size
              /\ \A i \in 1..a.object_val.size :
                    /\ a.object_val.data[i].key = b.object_val.data[i].key
                    /\ SameOrder(a.object_val.data[i].value, b.object_val.data[i].value)
         [] OTHER -> TRUE

\* The sequence longer is the sequence shorter with the one item x after it.
Extends(longer, shorter, x) ==
    /\ Len(longer) = Len(shorter) + 1
    /\ SubSeq(longer, 1, Len(shorter)) = shorter
    /\ longer[Len(longer)] = x

\* The container node holds exactly the items, in their order.
HoldsItems(node, kind, items) ==
    IF kind = "array"
    THEN /\ node.type = "Array"
         /\ node.array_val.data = items
         /\ node.array_val.size = Len(items)
    ELSE /\ node.type = "Object"
         /\ node.object_val.data = items
         /\ node.object_val.size = Len(items)

\* A call of add with a value or with a node puts one item after the items
\* the builder holds and leaves those alone; build() gives a container of
\* exactly the builder's items.
BuilderKeepsOrder ==
    /\ last' \in {"ArrayBuilder_add", "ObjectBuilder_add"} =>
          /\ Len(builders') = Len(builders)
          /\ \E x \in BuildValues \cup {ObjectPair(k, v) : k \in BuildKeys, v \in BuildValues} :
                Extends(builders'[Len(builders')].items, TopBuilder.items, x)
    /\ (last' = "add_node" /\ built.ok) =>
          \E x \in {built.node} \cup {ObjectPair(k, built.node) : k \in BuildKeys} :
                Extends(builders'[Len(builders')].items, TopBuilder.items, x)
    /\ last' = "build" =>
          /\ built'.ok
          /\ HoldsItems(built'.node, TopBuilder.kind, TopBuilder.items)

\* When parse_value returns an element or a pair's value to parse_array or
\* parse_object, it is put after the ones read so far, and the node that
\* the call returns holds exactly the elements or pairs read.
ParserKeepsOrder ==
    /\ (last' = "parse_array_loop" /\ ret.ok) =>
          IF pc' = "parse_value"
          THEN stack'[Len(stack')].items = Append(Top.items, ret.node)
          ELSE ret'.ok => HoldsItems(ret'.node, "array", Append(Top.items, ret.node))
    /\ (last' = "parse_object_loop" /\ ret.ok) =>
          IF pc' = "parse_value"
          THEN stack'[Len(stack')].items
                  = Append(Top.items, ObjectPair(Top.key, ret.node))
          ELSE ret'.ok =>
                  HoldsItems(ret'.node, "object",
                             Append(Top.items, ObjectPair(Top.key, ret.node)))

\* C12: order and duplicates are preserved.  The parser and the builder
\* store elements and pairs in the order read or added, drop or merge no
\* pair when keys repeat, the size of a container is the number of its
\* elements or pairs, and the text write gives lists them in that order:
\* parsing it again yields the same kinds and keys in the same places.
C12_OrderPreserved ==
    /\ [](Reparsed => (result.ok /\ SameOrder(orig, result.node)))
    /\ [][BuilderKeepsOrder /\ ParserKeepsOrder]_vars

\* An object built with the same key added twice has been written and
\* parsed again.
C12_Witness ==
    /\ Reparsed
    /\ orig.type = "Object"
    /\ orig.object_val.size >= 2
    /\ orig.object_val.data[1].key = orig.object_val.data[2].key
    /\ orig.object_val.data[1].value # orig.object_val.data[2].value
    /\ result.ok

(***************************************************************************)
(* Text of a string                                                        *)
(***************************************************************************)
\* What the specification has write put out for one byte of a string.
RenderedByte(b) ==
    CASE b = QUOTE -> <<BACKSLASH, QUOTE>>
      [] b = BACKSLASH -> <<BACKSLASH, BACKSLASH>>
      [] b = SLASH -> <<BACKSLASH, SLASH>>
      [] b = BS -> <<BACKSLASH, Ch_b>>
      [] b = FF -> <<BACKSLASH, Ch_f>>
      [] b = LF -> <<BACKSLASH, Ch_n>>
      [] b = CR -> <<BACKSLASH, Ch_r>>
      [] b = TAB -> <<BACKSLASH, Ch_t>>
      [] b < 32 /\ b \notin {BS, FF, LF, CR, TAB} ->
            <<BACKSLASH, Ch_u, Ch_0, Ch_0, HexChar(b \div 16, FALSE),
              HexChar(b % 16, FALSE)>>
      [] OTHER -> <<b>>

\* The same with the solidus written as it is.
RenderedByteSolidusPlain(b) ==
    IF b = SLASH THEN <<b>> ELSE RenderedByte(b)

RenderedString(bytes) ==
    <<QUOTE>> \o Flatten([i \in 1..Len(bytes) |-> RenderedByte(bytes[i])]) \o <<QUOTE>>

RenderedStringSolidusPlain(bytes) ==
    <<QUOTE>> \o Flatten([i \in 1..Len(bytes) |-> RenderedByteSolidusPlain(bytes[i])])
    \o <<QUOTE>>

\* write has just been called on a string node.
StringWritten ==
    last = "write" /\ orig.type = "String"

\* C13: string rendering by write.  Each byte with a two-character escape
\* is written as that escape, every other byte below 0x20 as \u00XX, and
\* every other byte, 0x20 to 0xFF, unchanged.
C13_StringRendering ==
    StringWritten => input_ = RenderedString(orig.string_val)

\* Where it holds: no solidus in the string and no byte from 0x80 up.
C13_StringRenderingAscii ==
    (StringWritten /\ \A i \in 1..Len(orig.string_val) :
                         orig.string_val[i] < 128 /\ orig.string_val[i] # SLASH)
        => input_ = RenderedString(orig.string_val)

\* With the solidus written as it is, the bytes from 0x80 up still differ
\* where plain char is signed, and only there.
C13_StringRenderingUnsignedChar ==
    (StringWritten /\ char_signed = FALSE)
        => input_ = RenderedStringSolidusPlain(orig.string_val)

C13_StringRenderingSolidusPlain ==
    StringWritten => input_ = RenderedStringSolidusPlain(orig.string_val)

(***************************************************************************)
(* Whitespace of compact output                                            *)
(***************************************************************************)
\* The 0-based positions of a text that lie outside its string literals;
\* the quotes of a literal count as inside.  in: the scan is inside a
\* literal; esc: the byte before was the backslash of an escape.
RECURSIVE OutsideFrom(_, _, _, _)
OutsideFrom(text, i, in, esc) ==
    IF i >= Len(text) THEN {}
    ELSE IF ~in THEN
        IF At(text, i) = QUOTE THEN OutsideFrom(text, i + 1, TRUE, FALSE)
        ELSE {i} \cup OutsideFrom(text, i + 1, FALSE, FALSE)
    ELSE IF esc THEN OutsideFrom(text, i + 1, TRUE, FALSE)
    ELSE IF At(text, i) = BACKSLASH THEN OutsideFrom(text, i + 1, TRUE, TRUE)
    ELSE IF At(text, i) = QUOTE THEN OutsideFrom(text, i + 1, FALSE, FALSE)
    ELSE OutsideFrom(text, i + 1, TRUE, FALSE)

Outside(text) ==
    OutsideFrom(text, 0, FALSE, FALSE)

Whitespace ==
    {SPACE, TAB, LF, CR}

\* The positions of whitespace outside string literals.
OutsideWhitespace(text) ==
    {i \in Outside(text) : At(text, i) \in Whitespace}

\* The positions of the colons of object pairs.
OutsideColons(text) ==
    {i \in Outside(text) : At(text, i) = COLON}

\* write(root, false) has just been called.
CompactWritten ==
    last = "write" /\ doc.kind = "written" /\ ~doc.pretty

\* C14 as the specification words it: compact output has one space after
\* the colon of every pair and no other whitespace outside literals.
C14_CompactOutput_Original ==
    CompactWritten =>
        OutsideWhitespace(input_) = {i + 1 : i \in OutsideColons(input_)}

\* C14: compact output.  With pretty = false, write emits no whitespace
\* outside string literals: no space after a colon or a comma, no newline,
\* no indentation; the value of a pair follows its colon directly.
C14_CompactOutput ==
    CompactWritten =>
        /\ OutsideWhitespace(input_) = {}
        /\ \A i \in OutsideColons(input_) : i + 1 < Len(input_)

\* Compact output of an object whose second pair holds an array.
C14_Witness ==
    /\ CompactWritten
    /\ orig.type = "Object"
    /\ orig.object_val.size >= 2
    /\ orig.object_val.data[2].value.type = "Array"
    /\ orig.object_val.data[2].value.array_val.size >= 2

(***************************************************************************)
(* Errors of parse                                                         *)
(***************************************************************************)
\* parse has returned an error.
ParseFailed ==
    pc = "done" /\ ~result.ok

\* The texts read_string gives with InvalidEscape, each for one check.
EscapeMessages ==
    {error_message("InvalidEscape"), "Unknown escape sequence",
     "Invalid unicode escape sequence", "Missing low surrogate",
     "Invalid low surrogate", "Invalid codepoint"}

\* C15 as the specification words it: the message of every error of parse
\* is error_message(code).
C15_ErrorEnvelope_Original ==
    ParseFailed =>
        /\ result.error.code \in ErrorCode \ {"None"}
        /\ result.error.message = error_message(result.error.code)

\* C15: error envelope.  Every error of parse carries a code of the
\* enumeration other than None.  Its message is error_message(code) for
\* every code but InvalidEscape; with InvalidEscape it is that text or one
\* of five fixed texts that name the check that failed.
C15_ErrorEnvelope ==
    ParseFailed =>
        /\ result.error.code \in ErrorCode \ {"None"}
        /\ IF result.error.code = "InvalidEscape"
           THEN result.error.message \in EscapeMessages
           ELSE result.error.message = error_message(result.error.code)

\* A high surrogate without its low surrogate.
C15_Witness ==
    /\ ParseFailed
    /\ result.error.code = "InvalidEscape"
    /\ result.error.message = "Missing low surrogate"

C15_WitnessPlain ==
    /\ ParseFailed
    /\ result.error.code = "ExpectedComma"
    /\ result.error.message = error_message("ExpectedComma")

(***************************************************************************)
(* C16  Arena address validity                                             *)
(***************************************************************************)
Blocks(a) ==
    {a.blocks_[i] : i \in 1..Len(a.blocks_)}

Inside(region, block) ==
    /\ block.base <= region.addr
    /\ region.addr + region.size <= block.base + block.size

Disjoint(r1, r2) ==
    \/ r1.addr + r1.size <= r2.addr
    \/ r2.addr + r2.size <= r1.addr

\* The blocks the arena owns have not been deleted.
BlocksLive ==
    \A block \in Blocks(arena) : block \in arena.heap

RegionsInside ==
    \A i \in 1..Len(allocs.regions) :
        \E block \in Blocks(arena) : Inside(allocs.regions[i], block)

RegionsDisjoint ==
    \A i, j \in 1..Len(allocs.regions) :
        (i < j /\ allocs.regions[i].size > 0 /\ allocs.regions[j].size > 0)
            => Disjoint(allocs.regions[i], allocs.regions[j])

\* A step of a living arena keeps every block it owned, in place.
BlocksKept ==
    arena'.alive =>
        /\ Len(arena'.blocks_) >= Len(arena.blocks_)
        /\ SubSeq(arena'.blocks_, 1, Len(arena.blocks_)) = arena.blocks_

\* C16: while the arena lives, every region alloc has returned since the
\* arena was constructed or last reset lies inside one block the arena owns,
\* every owned block is still allocated and stays owned, and two returned
\* regions of non-zero size never overlap.
C16_AddressValidity ==
    /\ [](arena.alive => (BlocksLive /\ RegionsInside /\ RegionsDisjoint))
    /\ [][BlocksKept]_vars

\* Three regions of non-zero size have been returned, out of three blocks,
\* one of them a dedicated large block.
C16_Witness ==
    /\ arena.alive
    /\ last = "Arena_alloc"
    /\ Len(arena.blocks_) >= 3
    /\ \E block \in Blocks(arena) : block.size > arena.block_size_
    /\ \E i, j, k \in 1..Len(allocs.regions) :
        /\ i < j /\ j < k
        /\ allocs.regions[i].size > 0
        /\ allocs.regions[j].size > 0
        /\ allocs.regions[k].size > 0

(***************************************************************************)
(* C17  Arena reuse after reset                                            *)
(***************************************************************************)
\* The requests made before the last reset have been made again.
Repeated ==
    /\ allocs.resets > 0
    /\ Len(allocs.prev_log) > 0
    /\ allocs.log = allocs.prev_log

\* reset puts the cursor at the start of the first block.
Rewound ==
    last = "Arena_reset" =>
        /\ arena.current_ = arena.blocks_[1].base
        /\ arena.remaining_ = arena.block_size_

\* C17: after a reset the cursor is at the start of the first block, and
\* once the requests made before the reset have been repeated the arena
\* owns as many blocks as it did at the reset.
C17_ReuseAfterReset ==
    /\ Rewound
    /\ Repeated => Len(arena.blocks_) = allocs.prev_blocks

\* The part of C17 the code keeps: the cursor is rewound, and a sequence
\* that was served out of the first block alone is served out of it again.
C17_ReuseOfFirstBlock ==
    /\ Rewound
    /\ (Repeated /\ allocs.prev_blocks = 1) => Len(arena.blocks_) = 1

C17_WitnessFirstBlock ==
    /\ Repeated
    /\ allocs.prev_blocks = 1
    /\ Len(allocs.log) >= 2


(***************************************************************************)
(* C18  Empty containers                                                   *)
(***************************************************************************)
RECURSIVE StripWhitespace(_)
StripWhitespace(text) ==
    IF Len(text) = 0 THEN <<>>
    ELSE (IF Head(text) \in {SPACE, TAB, LF, CR} THEN <<>> ELSE <<Head(text)>>)
         \o StripWhitespace(Tail(text))

\* An array or object node of size 0 whose data pointer is null.
EmptyUnallocated(node, type) ==
    /\ node.type = type
    /\ IF type = "Array"
       THEN node.array_val.size = 0 /\ node.array_val.null /\ node.array_val.data = <<>>
       ELSE node.object_val.size = 0 /\ node.object_val.null /\ node.object_val.data = <<>>

IsEmptyContainer(node) ==
    \/ node.type = "Array" /\ node.array_val.size = 0
    \/ node.type = "Object" /\ node.object_val.size = 0

\* parse has returned for a document the caller supplied.
ParsedDocument ==
    pc = "done" /\ phase = "first" /\ doc.kind \in {"tokens", "string", "sample"}

\* The two brackets of the container write puts out for a node.
EmptyText(node) ==
    IF node.type = "Array" THEN <<LBRACKET, RBRACKET>> ELSE <<LBRACE, RBRACE>>

Indents ==
    0..2

\* C18: a document that is [ and ] or { and } with nothing but whitespace
\* around and between them parses to an Array or Object node of size 0 with a
\* null data pointer, every container of size 0 in a parsed tree has a null
\* data pointer, and write renders every container of size 0, at the root
\* or nested at any indentation, as the two brackets alone in pretty and in
\* compact mode.
C18_EmptyContainers ==
    /\ ParsedDocument =>
        /\ StripWhitespace(input_) = <<LBRACKET, RBRACKET>>
            => (result.ok /\ EmptyUnallocated(result.node, "Array"))
        /\ StripWhitespace(input_) = <<LBRACE, RBRACE>>
            => (result.ok /\ EmptyUnallocated(result.node, "Object"))
        /\ result.ok =>
            \A node \in SubNodes(result.node) :
                IsEmptyContainer(node) => EmptyUnallocated(node, node.type)
    /\ last = "write" =>
        /\ IsEmptyContainer(orig) => input_ = EmptyText(orig)
        /\ \A node \in SubNodes(orig) :
            IsEmptyContainer(node) =>
                \A pretty \in BOOLEAN, indent \in Indents :
                    write_node(node, pretty, indent, char_signed) = EmptyText(node)

\* [ and ] with two spaces between them have been parsed.
C18_Witness ==
    /\ ParsedDocument
    /\ input_ = <<LBRACKET, SPACE, SPACE, RBRACKET>>
    /\ result.ok
    /\ result.node.type = "Array"

\* The empty object parsed from { } has been written in pretty mode.
C18_WitnessWritten ==
    /\ last = "write"
    /\ doc.pretty
    /\ EmptyUnallocated(orig, "Object")
    /\ input_ = <<LBRACE, RBRACE>>

\* An empty array nested in an array has been written in pretty mode.
C18_WitnessNested ==
    /\ last = "write"
    /\ doc.pretty
    /\ orig.type = "Array"
    /\ orig.array_val.size > 0
    /\ \E node \in SubNodes(orig) : EmptyUnallocated(node, "Array")


(***************************************************************************)
(* C19  Checked access                                                     *)
(***************************************************************************)
Accessed ==
    access.op # "none"

IndexedAccess ==
    access.op = "index_at" =>
        IF access.node.type = "Array"
        THEN /\ access.index < access.node.array_val.size
                => access.res = AccessOk(access.node.array_val.data[access.index + 1])
             /\ access.index >= access.node.array_val.size
                => access.res = AccessError("OutOfBounds")
        ELSE access.res = AccessError("TypeMismatch")

TypedAccess ==
    access.op \in DOMAIN TypedAccessors =>
        (access.node.type # TypedAccessors[access.op]
            => access.res = AccessError("TypeMismatch"))

KeyedAccess ==
    access.op = "index_key" =>
        (access.node.type # "Object" => access.res = AccessError("TypeMismatch"))

\* An accessor call leaves the tree the caller holds as it was, and the
\* node it was applied to is a node of that tree.
AccessKeepsTree ==
    Accessed' =>
        /\ Held.ok
        /\ UNCHANGED <<result, built, builders, phase, pc, orig>>
        /\ access'.node \in SubNodes(Held.node)

\* C19: operator[](i) on an array node of size n returns element i when
\* i < n and OutOfBounds when i >= n; a typed accessor, operator[](i) or
\* operator[](key) applied to a node of another kind returns TypeMismatch;
\* and no accessor call changes the tree.
C19_CheckedAccess ==
    /\ [](IndexedAccess /\ TypedAccess /\ KeyedAccess)
    /\ [][AccessKeepsTree]_vars

\* operator[](3) on the array parsed from [1, 2, 3]: out of bounds by one.
C19_Witness ==
    /\ access.op = "index_at"
    /\ access.node.type = "Array"
    /\ access.node.array_val.size = 3
    /\ access.index = 3
    /\ ~access.res.ok

\* operator[](2) on the same array: its last element.
C19_WitnessElement ==
    /\ access.op = "index_at"
    /\ access.node.type = "Array"
    /\ access.node.array_val.size = 3
    /\ access.index = 2
    /\ access.res.ok

\* as_string() on a number node.
C19_WitnessMismatch ==
    /\ access.op = "as_string"
    /\ access.node.type = "Number"
    /\ ~access.res.ok

\* operator[](index) on an object node.
C19_WitnessIndexMismatch ==
    /\ access.op = "index_at"
    /\ access.node.type = "Object"
    /\ ~access.res.ok


(***************************************************************************)
(* C20  Depth counter restored                                             *)
(***************************************************************************)
InContainer ==
    pc = "return" /\ Len(stack) > 0 /\ Top.fn \in {"parse_array", "parse_object"}

\* parse_array or parse_object is entered and returns before it calls
\* parse_value.
ReturnsAtOnce ==
    pc \in {"parse_array", "parse_object"} /\ pc' = "return"

\* parse_array or parse_object returns after a value of its loop.
ReturnsFromLoop ==
    InContainer /\ pc' = "return"

\* Every frame above the one of parse is a call of parse_array or of
\* parse_object that is waiting for a value, so the counter at the entry
\* of the call with the topmost frame was the number of frames between it
\* and the frame of parse.
EntryDepth ==
    Len(stack) - 2

\* When parse_array or parse_object is entered the counter is the number of
\* calls of them in progress.
C20_EntryDepth ==
    pc \in {"parse_value", "parse_array", "parse_object"} => depth_ = Len(stack) - 1

\* C20: when a call of parse_array or of parse_object returns, with a node
\* or with an error, the depth counter has the value it had when the call
\* was entered.
C20_DepthRestored ==
    [][/\ ReturnsAtOnce => depth_' = depth_
       /\ ReturnsFromLoop => depth_' = EntryDepth]_vars

\* The part of C20 the code keeps: a call that returns a node leaves the
\* counter as it found it.
C20_DepthRestoredOnSuccess ==
    [][/\ (ReturnsAtOnce /\ ret'.ok) => depth_' = depth_
       /\ (ReturnsFromLoop /\ ret'.ok) => depth_' = EntryDepth]_vars

\* On an error return the counter is above its value at the entry, whatever
\* the error: the call's own increment is not undone, and neither are those
\* of the nested calls whose error it passes on.
C20_DepthLeakedOnError ==
    [][/\ (ReturnsAtOnce /\ ~ret'.ok) => depth_' = depth_ + 1
       /\ (ReturnsFromLoop /\ ~ret'.ok) =>
            (depth_' > EntryDepth /\ depth_' = depth_)]_vars

\* A nested container has returned a node to the loop of its parent.
C20_WitnessSuccess ==
    /\ InContainer
    /\ ret.ok
    /\ ret.node.type \in {"Array", "Object"}
    /\ depth_ = 1


(***************************************************************************)
(* C21  Number lexing                                                      *)
(***************************************************************************)
DigitBytes ==
    48..57

\* The bytes of t at the 0-based indices from..to-1 are digits.
AllDigits(t, from, to) ==
    \A i \in from..(to - 1) : At(t, i) \in DigitBytes

\* t matches (e|E)(+|-)?[0-9]+ from index c to its end, or c is its end.
MatchesExponent(t, c) ==
    \/ c = Len(t)
    \/ /\ At(t, c) \in {Ch_e, Ch_E}
       /\ \E d \in {c + 1, c + 2} :
            /\ d < Len(t)
            /\ d = c + 2 => At(t, c + 1) \in {PLUS, MINUS}
            /\ AllDigits(t, d, Len(t))

\* t matches -?(0|[1-9][0-9]*)(.[0-9]+)?((e|E)(+|-)?[0-9]+)?
MatchesNumber(t) ==
    \E a \in {0, 1} : \E b \in (a + 1)..Len(t) : \E c \in b..Len(t) :
        /\ a = 1 => At(t, 0) = MINUS
        /\ AllDigits(t, a, b)
        /\ b - a = 1 \/ At(t, a) # Ch_0
        /\ c = b \/ (At(t, b) = DOT /\ c >= b + 2 /\ AllDigits(t, b + 1, c))
        /\ MatchesExponent(t, c)

\* The length of the longest prefix of s from start on that is a number,
\* 0 when there is none.
LongestNumber(s, start) ==
    Greatest({0} \cup {k \in 1..(Len(s) - start) : MatchesNumber(Substr(s, start, k))})

IsDigitAt(s, i) ==
    i < Len(s) /\ At(s, i) \in DigitBytes

\* The end of the run of digits that starts at p.
DigitRunEnd(s, p) ==
    CHOOSE q \in p..Len(s) : AllDigits(s, p, q) /\ ~IsDigitAt(s, q)

\* The positions at which a number that starts at start needs a digit.
AfterSign(s, start) ==
    IF At(s, start) = MINUS THEN start + 1 ELSE start

AfterInteger(s, start) ==
    IF ~IsDigitAt(s, AfterSign(s, start)) THEN AfterSign(s, start)
    ELSE IF At(s, AfterSign(s, start)) = Ch_0 THEN AfterSign(s, start) + 1
    ELSE DigitRunEnd(s, AfterSign(s, start))

HasFraction(s, start) ==
    AfterInteger(s, start) < Len(s) /\ At(s, AfterInteger(s, start)) = DOT

AfterFraction(s, start) ==
    IF HasFraction(s, start) THEN DigitRunEnd(s, AfterInteger(s, start) + 1)
    ELSE AfterInteger(s, start)

HasExponent(s, start) ==
    AfterFraction(s, start) < Len(s) /\ At(s, AfterFraction(s, start)) \in {Ch_e, Ch_E}

AfterExponentSign(s, start) ==
    IF /\ AfterFraction(s, start) + 1 < Len(s)
       /\ At(s, AfterFraction(s, start) + 1) \in {PLUS, MINUS}
    THEN AfterFraction(s, start) + 2
    ELSE AfterFraction(s, start) + 1

\* A digit is required and absent: after the sign, after the point, or
\* after the exponent marker and its optional sign.
DigitMissing(s, start) ==
    \/ ~IsDigitAt(s, AfterSign(s, start))
    \/ /\ HasFraction(s, start)
       /\ ~IsDigitAt(s, AfterInteger(s, start) + 1)
    \/ /\ IsDigitAt(s, AfterSign(s, start))
       /\ HasFraction(s, start) => IsDigitAt(s, AfterInteger(s, start) + 1)
       /\ HasExponent(s, start)
       /\ ~IsDigitAt(s, AfterExponentSign(s, start))

\* A call of next() on a tokenizer of its own has returned.
Lexed ==
    last = "Tokenizer_next" /\ ~lexed.fault

\* Where the token of the last call starts.
LexStart ==
    skip_whitespace(input_, lexed.before)

\* The last call was handed to read_number.
NumberLexed ==
    /\ Lexed
    /\ LexStart < Len(input_)
    /\ At(input_, LexStart) \in {MINUS} \cup DigitBytes

\* C21: read_number, entered at a '-' or a digit, fails with InvalidNumber at
\* the start offset of the token when a digit is required and absent, and
\* otherwise returns as a Number token at the start offset exactly the
\* longest prefix of the input that matches the number grammar, with the
\* position just behind it.
C21_NumberLexing ==
    NumberLexed =>
        IF DigitMissing(input_, LexStart)
        THEN /\ ~lexed.res.ok
             /\ lexed.res.error.code = "InvalidNumber"
             /\ lexed.res.error.offset = LexStart
        ELSE /\ lexed.res.ok
             /\ lexed.res.token.type = "Number"
             /\ lexed.res.token.offset = LexStart
             /\ LongestNumber(input_, LexStart) > 0
             /\ lexed.res.token.text
                    = Substr(input_, LexStart, LongestNumber(input_, LexStart))
             /\ tk.pos = LexStart + LongestNumber(input_, LexStart)

\* A number with sign, fraction and signed exponent, followed by more input.
C21_Witness ==
    /\ NumberLexed
    /\ lexed.res.ok
    /\ lexed.res.token.text = <<MINUS, Ch_0 + 1, Ch_0, DOT, Ch_0, Ch_9, Ch_e, MINUS, Ch_0 + 1, Ch_0>>
    /\ tk.pos < Len(input_)

\* A leading zero followed by a digit: the token is the zero alone.
C21_WitnessLeadingZero ==
    /\ NumberLexed
    /\ lexed.res.ok
    /\ lexed.res.token.text = <<Ch_0>>
    /\ IsDigitAt(input_, tk.pos)

\* The digit after the sign of the exponent is missing; the offset of the
\* error is the start of the token, three bytes in front of that place.
C21_WitnessMissingDigit ==
    /\ NumberLexed
    /\ ~lexed.res.ok
    /\ lexed.res.error.code = "InvalidNumber"
    /\ HasExponent(input_, LexStart)
    /\ AfterExponentSign(input_, LexStart) >= LexStart + 3
    /\ lexed.res.error.offset = LexStart


(***************************************************************************)
(* C22  Unterminated strings                                               *)
(***************************************************************************)
\* The last call was handed to read_string.
StringLexed ==
    /\ Lexed
    /\ LexStart < Len(input_)
    /\ At(input_, LexStart) = QUOTE

\* The number of backslashes in a row that end just in front of index q,
\* none of them in front of index from.
BackslashRun(s, from, q) ==
    Greatest({n \in 0..(q - from) :
                \A i \in (q - n)..(q - 1) : At(s, i) = BACKSLASH})

\* The quote at q is not escaped: an even number of backslashes stands in
\* front of it.
UnescapedQuote(s, from, q) ==
    /\ At(s, q) = QUOTE
    /\ BackslashRun(s, from, q) % 2 = 0

\* The string whose opening quote is at start has no closing quote.
Unterminated(s, start) ==
    \A q \in (start + 1)..(Len(s) - 1) : ~UnescapedQuote(s, start + 1, q)

\* The input ends with a backslash behind the opening quote.
EndsAfterBackslash(s, start) ==
    Len(s) - 1 > start /\ At(s, Len(s) - 1) = BACKSLASH

\* The input ends with a backslash that is not itself escaped.
EndsInsideEscape(s, start) ==
    BackslashRun(s, start + 1, Len(s)) % 2 = 1

InvalidStringAt(res, offset) ==
    /\ ~res.ok
    /\ res.error.code = "InvalidString"
    /\ res.error.offset = offset

\* C22 as stated: an unterminated string fails with InvalidEscape when the
\* last byte of the input is a backslash and with InvalidString at the
\* offset of its opening quote otherwise.
C22_Unterminated_Original ==
    (StringLexed /\ Unterminated(input_, LexStart)) =>
        IF EndsAfterBackslash(input_, LexStart)
        THEN ~lexed.res.ok /\ lexed.res.error.code = "InvalidEscape"
        ELSE InvalidStringAt(lexed.res, LexStart)

\* C22: a string without an unescaped closing quote before the end of the
\* input fails, and no token is returned: with InvalidEscape at the offset
\* of the end of the input when the input ends with a backslash that is not
\* itself escaped, and with InvalidString at the offset of the opening quote
\* otherwise, which includes an input that ends with an escaped backslash.
C22_Unterminated ==
    (StringLexed /\ Unterminated(input_, LexStart)) =>
        IF EndsInsideEscape(input_, LexStart)
        THEN /\ ~lexed.res.ok
             /\ lexed.res.error.code = "InvalidEscape"
             /\ lexed.res.error.offset = Len(input_)
        ELSE InvalidStringAt(lexed.res, LexStart)

\* An opening quote and an escaped backslash, then the end of the input.
C22_Witness ==
    /\ StringLexed
    /\ Unterminated(input_, LexStart)
    /\ EndsAfterBackslash(input_, LexStart)
    /\ InvalidStringAt(lexed.res, LexStart)

\* The input ends in the middle of an escape.
C22_WitnessEscape ==
    /\ StringLexed
    /\ Unterminated(input_, LexStart)
    /\ EndsInsideEscape(input_, LexStart)
    /\ ~lexed.res.ok
    /\ lexed.res.error.code = "InvalidEscape"

\* An escaped quote is the last byte: the string is unterminated.
C22_WitnessEscapedQuote ==
    /\ StringLexed
    /\ At(input_, Len(input_) - 1) = QUOTE
    /\ Len(input_) - 1 > LexStart
    /\ Unterminated(input_, LexStart)
    /\ InvalidStringAt(lexed.res, LexStart)


(***************************************************************************)
(* C23  Zero-copy fast path and uniform token shape                        *)
(***************************************************************************)
\* The index of the closing quote of the string that opens at start.
ClosingQuote(s, start) ==
    CHOOSE q \in (start + 1)..(Len(s) - 1) :
        /\ UnescapedQuote(s, start + 1, q)
        /\ \A q2 \in (start + 1)..(q - 1) : ~UnescapedQuote(s, start + 1, q2)

HasBackslash(s, start) ==
    \E i \in (start + 1)..(ClosingQuote(s, start) - 1) : At(s, i) = BACKSLASH

\* A tokenizer that has an arena has returned a string token.
StringTokenLexed ==
    /\ StringLexed
    /\ lexed.has_arena
    /\ lexed.res.ok

\* A text without its first and its last byte.
Inner(text) ==
    SubSeq(text, 2, Len(text) - 1)

\* The token the parser's tokenizer returns first, and second.
FirstToken ==
    next(input_, 0)

SecondToken ==
    next(input_, FirstToken.pos)

\* parse has returned a string node for a document.
StringNodeParsed ==
    /\ pc = "done"
    /\ phase = "first"
    /\ doc.kind \in {"string", "sample"}
    /\ result.ok
    /\ result.node.type = "String"

\* parse has returned an object with at least one pair for a document.
ObjectParsed ==
    /\ pc = "done"
    /\ phase = "first"
    /\ doc.kind = "sample"
    /\ result.ok
    /\ result.node.type = "Object"
    /\ result.node.object_val.size > 0

\* C23: a string token without a backslash between its quotes is the slice
\* of the input from the opening to the closing quote inclusive and costs
\* no arena allocation; a string token with escapes is held in one buffer
\* of the arena and begins and ends with a quote; and the string node or
\* object key the parser makes of a string token is the token text without
\* its first and its last byte.
C23_TokenShape ==
    /\ StringTokenLexed =>
        IF HasBackslash(input_, LexStart)
        THEN /\ lexed.text_at.where = "arena"
             /\ lexed.nallocs = 1
             /\ [addr |-> lexed.text_at.addr, size |-> lexed.buffer.size]
                    = allocs.regions[Len(allocs.regions)]
             /\ Len(lexed.res.token.text) <= lexed.buffer.size
             /\ Len(lexed.res.token.text) >= 2
             /\ Head(lexed.res.token.text) = QUOTE
             /\ lexed.res.token.text[Len(lexed.res.token.text)] = QUOTE
        ELSE /\ lexed.text_at = [where |-> "input", addr |-> LexStart]
             /\ lexed.nallocs = 0
             /\ lexed.res.token.text
                    = Substr(input_, LexStart, ClosingQuote(input_, LexStart) + 1 - LexStart)
    /\ StringNodeParsed =>
        /\ FirstToken.token.type = "String"
        /\ result.node.string_val = Inner(FirstToken.token.text)
    /\ ObjectParsed =>
        /\ SecondToken.token.type = "String"
        /\ result.node.object_val.data[1].key = Inner(SecondToken.token.text)

\* A string with an escaped quote: the buffer holds three quotes.
C23_Witness ==
    /\ StringTokenLexed
    /\ HasBackslash(input_, LexStart)
    /\ lexed.res.token.text = <<QUOTE, QUOTE, QUOTE>>

\* A string without escapes behind whitespace.
C23_WitnessFastPath ==
    /\ StringTokenLexed
    /\ ~HasBackslash(input_, LexStart)
    /\ LexStart > 0
    /\ Len(lexed.res.token.text) > 2

\* A string document with an escape has been parsed.
C23_WitnessNode ==
    /\ StringNodeParsed
    /\ \E i \in 1..Len(input_) : input_[i] = BACKSLASH

\* An object with a key that holds an escape has been parsed.
C23_WitnessKey ==
    /\ ObjectParsed
    /\ Len(SecondToken.token.text) > 2
    /\ SecondToken.token.text # Substr(input_, SecondToken.token.offset, Len(SecondToken.token.text))


(***************************************************************************)
(* C24  Token classification                                               *)
(***************************************************************************)
WhitespaceBytes ==
    {32, 9, 13, 10}

\* The first index from p on that holds no whitespace byte, the length of
\* the input when there is none.
TokenStart(s, p) ==
    CHOOSE q \in p..Len(s) :
        /\ \A i \in p..(q - 1) : At(s, i) \in WhitespaceBytes
        /\ q < Len(s) => At(s, q) \notin WhitespaceBytes

\* { } [ ] : ,
Structural ==
    (123 :> "LeftBrace") @@ (125 :> "RightBrace") @@ (91 :> "LeftBracket")
    @@ (93 :> "RightBracket") @@ (58 :> "Colon") @@ (44 :> "Comma")

\* t, f, n: the keyword that starts with the byte and its token type.
Keywords ==
    (116 :> [text |-> <<116, 114, 117, 101>>, type |-> "True"])
    @@ (102 :> [text |-> <<102, 97, 108, 115, 101>>, type |-> "False"])
    @@ (110 :> [text |-> <<110, 117, 108, 108>>, type |-> "Null"])

\* The bytes a token can start with.
TokenFirstBytes ==
    DOMAIN Structural \cup DOMAIN Keywords \cup {QUOTE, MINUS} \cup DigitBytes

InvalidTokenAt(res, offset) ==
    /\ ~res.ok
    /\ res.error.code = "InvalidToken"
    /\ res.error.offset = offset

\* The keyword that starts with the byte at start is spelt out in full there.
KeywordSpelt(s, start) ==
    /\ Len(s) - start >= Len(Keywords[At(s, start)].text)
    /\ Substr(s, start, Len(Keywords[At(s, start)].text)) = Keywords[At(s, start)].text

\* What the claim says of the call of next() that started at position
\* before, found its token at start and returned res with position pos.
Classified(s, before, start, res, pos) ==
    /\ start = TokenStart(s, before)
    /\ IF start = Len(s) THEN
            /\ res.ok
            /\ res.token = Token("End", <<>>, Len(s))
            /\ pos = Len(s)
       ELSE IF At(s, start) \in DOMAIN Structural THEN
            /\ res.ok
            /\ res.token = Token(Structural[At(s, start)], <<At(s, start)>>, start)
            /\ pos = start + 1
       ELSE IF At(s, start) \in DOMAIN Keywords THEN
            IF KeywordSpelt(s, start)
            THEN /\ res.ok
                 /\ res.token = Token(Keywords[At(s, start)].type,
                                      Keywords[At(s, start)].text, start)
                 /\ pos = start + Len(Keywords[At(s, start)].text)
            ELSE InvalidTokenAt(res, start)
       ELSE IF At(s, start) \notin TokenFirstBytes THEN
            /\ InvalidTokenAt(res, start)
            /\ pos = start
       ELSE TRUE

\* The sample document { invalid json } has been parsed.
InvalidJsonParsed ==
    /\ pc = "done"
    /\ phase = "first"
    /\ input_ = <<123, 32, 105, 110, 118, 97, 108, 105, 100, 32, 106, 115, 111, 110, 32, 125>>

\* C24: next() skips space, tab, CR and LF and nothing else; at the end of
\* the input it returns End; for { } [ ] : , it returns the structural token
\* and moves on by one byte; a first byte that starts no token fails with
\* InvalidToken at its offset; a keyword that is misspelt or cut short fails
\* with InvalidToken at the offset of its first byte, and one spelt in full
\* gives its token; and { invalid json } fails to parse.
C24_TokenClassification ==
    /\ Lexed => Classified(input_, lexed.before, LexStart, lexed.res, tk.pos)
    /\ InvalidJsonParsed => (~result.ok /\ result.error.code = "InvalidToken")

\* A form feed behind whitespace: no whitespace, no token.
C24_Witness ==
    /\ Lexed
    /\ LexStart = 2
    /\ At(input_, LexStart) = 12
    /\ InvalidTokenAt(lexed.res, 2)

\* A keyword cut short by the end of the input.
C24_WitnessKeywordCut ==
    /\ Lexed
    /\ input_ = <<110, 117, 108>>
    /\ InvalidTokenAt(lexed.res, 0)

\* A keyword misspelt in its last byte, behind another token.
C24_WitnessKeywordMismatch ==
    /\ Lexed
    /\ LexStart < Len(input_)
    /\ At(input_, LexStart) \in DOMAIN Keywords
    /\ ~KeywordSpelt(input_, LexStart)
    /\ Len(input_) - LexStart > 4
    /\ lexed.res.pos = LexStart + 4

C24_WitnessEnd ==
    /\ Lexed
    /\ lexed.res.ok
    /\ lexed.res.token.type = "End"
    /\ lexed.before < Len(input_)

C24_WitnessInvalidJson ==
    InvalidJsonParsed


(***************************************************************************)
(* C25  Arena alignment and placement                                      *)
(***************************************************************************)
\* The step is a call of alloc.
AllocCalled ==
    /\ pc = "arena"
    /\ allocs'.nops = allocs.nops + 1
    /\ Len(allocs'.log) = Len(allocs.log) + 1

\* The request of the call and the region it returned.
Requested ==
    allocs'.log[Len(allocs'.log)]

Returned ==
    allocs'.regions[Len(allocs'.regions)]

\* padding, computed from the cursor before the call.
PaddingBefore ==
    AlignUp(arena.current_, Requested.alignment) - arena.current_

\* The call has pushed one block of the given size.
OneNewBlock(size) ==
    /\ Len(arena'.blocks_) = Len(arena.blocks_) + 1
    /\ SubSeq(arena'.blocks_, 1, Len(arena.blocks_)) = arena.blocks_
    /\ arena'.blocks_[Len(arena'.blocks_)].size = size
    /\ Inside(Returned, arena'.blocks_[Len(arena'.blocks_)])

Aligned ==
    Returned.addr % Requested.alignment = 0

\* The three cases of the claim.
Placed ==
    /\ \E block \in Blocks(arena') : Inside(Returned, block)
    /\ Len(arena'.blocks_) <= Len(arena.blocks_) + 1
    /\ IF PaddingBefore + Requested.size <= arena.remaining_ THEN
            /\ arena'.blocks_ = arena.blocks_
            /\ Returned.addr = arena.current_ + PaddingBefore
            /\ arena'.current_ = Returned.addr + Requested.size
       ELSE IF Requested.size > arena.block_size_ THEN
            /\ OneNewBlock(Requested.size)
            /\ arena'.current_ = arena.current_
            /\ arena'.remaining_ = arena.remaining_
       ELSE /\ OneNewBlock(arena.block_size_)
            /\ arena'.current_ = Returned.addr + Requested.size

\* C25: every address alloc<T>(count) returns is a multiple of alignof(T)
\* and its sizeof(T) * count bytes lie inside one owned block: the current
\* block when padding + size <= remaining_, a dedicated block of exactly
\* that size when size > block_size_, with current_ and remaining_ left as
\* they were, and otherwise a fresh block of block_size_; the call asks for
\* at most one new block.
C25_AlignmentAndPlacement ==
    [][AllocCalled => (Aligned /\ Placed)]_vars

\* The same for the alignments ::operator new provides by itself.
C25_FundamentalAlignment ==
    [][(AllocCalled /\ Requested.alignment <= NewAlignment) => (Aligned /\ Placed)]_vars

\* The placement alone, whatever the alignment.
C25_Placement ==
    [][AllocCalled => Placed]_vars

\* A dedicated block has been returned at an address that is no multiple of
\* the alignment asked for.
C25_WitnessMisaligned ==
    /\ last = "Arena_alloc"
    /\ Len(allocs.regions) > 0
    /\ allocs.log[Len(allocs.log)].alignment = OverAlignment
    /\ allocs.regions[Len(allocs.regions)].addr % OverAlignment # 0
    /\ allocs.regions[Len(allocs.regions)].addr = arena.blocks_[Len(arena.blocks_)].base


(***************************************************************************)
(* C26  Tokenizer without arena                                            *)
(***************************************************************************)
\* The bytes of the input from the opening quote to the closing one.
RawString(s, start) ==
    Substr(s, start, ClosingQuote(s, start) + 1 - start)

\* A returned string token is the raw text of the input.
NotUnescaped ==
    (StringLexed /\ lexed.res.ok) =>
        /\ lexed.text_at = [where |-> "input", addr |-> LexStart]
        /\ lexed.res.token.text = RawString(input_, LexStart)

\* C26: a tokenizer constructed without an arena tokenizes every input
\* without using one: next() returns a token or an Error and never
\* dereferences the absent arena, and a string with escapes is returned as
\* it stands in the input.
C26_TokenizerWithoutArena ==
    (lexed.on /\ ~lexed.has_arena) =>
        /\ ~lexed.null_deref
        /\ ~lexed.fault
        /\ NotUnescaped

\* What does hold without an arena: a call that meets no string with a
\* backslash in front of its closing quote never reaches arena_.
C26_NoEscapeNoArena ==
    (lexed.on /\ ~lexed.has_arena /\ ~lexed.buffer.needed) =>
        /\ ~lexed.null_deref
        /\ ~lexed.fault
        /\ NotUnescaped

\* A tokenizer without an arena has met a complete string with an escape:
\* arena_->alloc has been called through the null pointer.
C26_WitnessNullArena ==
    /\ lexed.on
    /\ ~lexed.has_arena
    /\ lexed.null_deref
    /\ input_ = <<QUOTE, BACKSLASH, QUOTE, QUOTE>>

\* A tokenizer without an arena has returned a string without escapes.
C26_WitnessFastPath ==
    /\ lexed.on
    /\ ~lexed.has_arena
    /\ StringLexed
    /\ lexed.res.ok
    /\ ~lexed.null_deref


(***************************************************************************)
(* C27  Unescape buffer bound                                              *)
(***************************************************************************)
\* The last call of next() took the slow path of read_string.
SlowPath ==
    /\ lexed.on
    /\ last = "Tokenizer_next"
    /\ lexed.buffer.needed

\* The number of bytes between the quotes of the string the call met.
RawContentSize ==
    ClosingQuote(input_, LexStart) - (LexStart + 1)

\* C27: for a string with escapes whose raw content is n bytes long the slow
\* path asks for a buffer of 4 * n + 3 bytes and writes at most n + 3 bytes
\* into it, the quotes and the terminating NUL included, whichever escapes
\* occur and on every error return as well.
C27_BufferBound ==
    SlowPath =>
        /\ lexed.buffer.content_size = RawContentSize
        /\ lexed.buffer.size = 4 * RawContentSize + 3
        /\ lexed.buffer.written <= RawContentSize + 3
        /\ lexed.buffer.written <= lexed.buffer.size

\* A surrogate pair has been decoded: twelve bytes of input, four of output.
C27_Witness ==
    /\ SlowPath
    /\ Lexed
    /\ lexed.res.ok
    /\ RawContentSize = 12
    /\ lexed.buffer.written = 1 + 4 + 2

\* The raw content is copied byte for byte behind one escape: n + 2 bytes
\* written for n bytes of content.
C27_WitnessLongest ==
    /\ SlowPath
    /\ Lexed
    /\ lexed.res.ok
    /\ lexed.buffer.written = RawContentSize + 2

\* An error return behind bytes that have been written.
C27_WitnessError ==
    /\ SlowPath
    /\ Lexed
    /\ ~lexed.res.ok
    /\ lexed.buffer.written > 1


(***************************************************************************)
(* C28  Error offset bound                                                 *)
(***************************************************************************)
\* parse has returned an Error.
ParseReturnedError ==
    /\ pc = "done"
    /\ lexed = NoLex
    /\ ~result.ok

\* A tokenizer on its own has returned from next(), or has stopped in it.
NextCalled ==
    /\ lexed.on
    /\ last = "Tokenizer_next"

C28_WitnessTooDeep ==
    /\ ParseReturnedError
    /\ result.error.code = "TooDeep"
    /\ result.error.offset > 0

\* The slow path has read the last byte of the input and failed.
C28_WitnessLastByte ==
    /\ Lexed
    /\ lexed.buffer.needed
    /\ ~lexed.res.ok
    /\ lexed.buffer.top = Len(input_) - 1

\* A number has ended with the input.
C28_WitnessNumberAtEnd ==
    /\ Lexed
    /\ lexed.res.ok
    /\ lexed.res.token.type = "Number"
    /\ lexed.res.pos = Len(input_)
    /\ lexed.buffer.top = Len(input_) - 1


(***************************************************************************)
(* C29  Lone low surrogate                                                 *)
(***************************************************************************)
\* A low-surrogate escape with no high-surrogate escape right in front.
LoneLow(pieces, i) ==
    IsLow(pieces[i]) /\ ~PairedLow(pieces, i)

HasLoneLow(pieces) ==
    \E i \in 1..Len(pieces) : LoneLow(pieces, i)

\* Every piece is decodable or a \u escape of a surrogate.
DecodableButSurrogates(pieces) ==
    \A i \in 1..Len(pieces) :
        \/ pieces[i].k = "raw"
        \/ pieces[i].k = "esc" /\ pieces[i].v[1] \in EightEscapes
        \/ IsPlainUni(pieces[i])
        \/ IsHigh(pieces[i])
        \/ IsLow(pieces[i])

\* 1110xxxx 10xxxxxx 10xxxxxx
ThreeBytes(cp) ==
    <<224 + (cp \div 4096), 128 + ((cp \div 64) % 64), 128 + (cp % 64)>>

\* C29: a \uXXXX escape from 0xDC00 to 0xDFFF with no high-surrogate escape
\* in front of it is accepted and gives the three bytes that encode its
\* value; of the surrogate escapes only a high surrogate without its low
\* partner makes the parse fail.
C29_LoneLowSurrogate ==
    StringParsed =>
        /\ (Len(doc.pieces) = 1 /\ IsLow(doc.pieces[1])) =>
              /\ result.ok
              /\ result.node.type = "String"
              /\ result.node.string_val = ThreeBytes(doc.pieces[1].cp)
        /\ (HasLoneLow(doc.pieces) /\ DecodableButSurrogates(doc.pieces)
                /\ ~HasLoneHigh(doc.pieces)) =>
              /\ result.ok
              /\ result.node.string_val = Decoded(doc.pieces, 1)
        /\ DecodableButSurrogates(doc.pieces) =>
              (result.ok <=> ~HasLoneHigh(doc.pieces))

\* \uDC00 alone: ED B0 80.
C29_Witness ==
    /\ StringParsed
    /\ doc.pieces = <<Uni(56320, TRUE)>>
    /\ result.ok
    /\ result.node.string_val = <<237, 176, 128>>

\* Two low surrogates in a row: six bytes.
C29_WitnessTwo ==
    /\ StringParsed
    /\ Len(doc.pieces) = 2
    /\ IsLow(doc.pieces[1])
    /\ IsLow(doc.pieces[2])
    /\ result.ok
    /\ Len(result.node.string_val) = 6

\* A low surrogate in front of a high one: the high one is rejected.
C29_WitnessLowHigh ==
    /\ StringParsed
    /\ Len(doc.pieces) = 2
    /\ IsLow(doc.pieces[1])
    /\ IsHigh(doc.pieces[2])
    /\ ~result.ok


(***************************************************************************)
(* C30  Progress and termination                                           *)
(***************************************************************************)
\* The step is a call of next() on a tokenizer of its own that returns.
NextReturns ==
    /\ lexed.on
    /\ tk'.reqs = tk.reqs + 1
    /\ ~lexed'.fault

\* A token other than End moves the position forward, not past the end;
\* after End every call returns End again and leaves the position alone.
TokenizerProgress ==
    NextReturns =>
        /\ (lexed'.res.ok /\ lexed'.res.token.type # "End") =>
              (tk.pos < tk'.pos /\ tk'.pos <= Len(input_))
        /\ (lexed.res.ok /\ lexed.res.token.type = "End") =>
              (lexed'.res = lexed.res /\ tk'.pos = tk.pos)

\* The number of tokens in front of End when the input is tokenized from p.
RECURSIVE TokenCount(_, _)
TokenCount(s, p) ==
    IF ~next(s, p).ok \/ next(s, p).token.type = "End" THEN 0
    ELSE 1 + TokenCount(s, next(s, p).pos)

\* A parser is at work or has returned.
Parsing ==
    /\ ~lexed.on
    /\ pc \in {"parse_value", "parse_array", "parse_array_loop", "parse_object",
               "parse_object_loop", "return", "done"}
    /\ phase = "first"

\* The parser never asks for more than L + 1 tokens, it holds a token only
\* if it has asked for one, and a parse that succeeds has asked for every
\* token of the input and for End once each.
ParserRequests ==
    Parsing =>
        /\ tk.reqs <= Len(input_) + 1
        /\ tk.has => tk.reqs >= 1
        /\ (pc = "done" /\ result.ok) => tk.reqs = TokenCount(input_, 0) + 1

ParserActions ==
    {"parse", "parse_value", "parse_array", "parse_array_loop", "parse_object",
     "parse_object_loop", "parse_return"}

\* The enabling condition of NextParse: each action of the parser is
\* enabled by its pc, the returns by pc = "return" and the frame on top of
\* the stack.
ParserRunning ==
    \/ pc \in {"parse", "parse_value", "parse_array", "parse_object"}
    \/ /\ pc = "return"
       /\ Len(stack) > 0
       /\ Top.fn \in {"parse", "parse_array", "parse_object"}

\* A step of the parser.
ParserStep ==
    ParserRunning /\ last' \in ParserActions

\* C30: a call of next() that returns a token other than End leaves the
\* position greater than before and at most the input length; once End has
\* been returned every later call returns End at the same offset; the
\* parser asks for each token once, at most L + 1 requests for an input of
\* length L; and parse returns, with a node or an error.
C30_ProgressAndTermination ==
    /\ [][TokenizerProgress]_vars
    /\ [](ParserRequests)
    /\ [](pc \in {"lex", "done"} \/ ParserRunning)
    /\ (pc = "parse") ~> (pc = "done")

\* End has been returned twice.
C30_Witness ==
    /\ Lexed
    /\ lexed.ended
    /\ lexed.res.ok
    /\ lexed.res.token.type = "End"
    /\ tk.reqs >= 3

\* A parse has succeeded after asking for five tokens or more and for End.
C30_WitnessAllRequests ==
    /\ Parsing
    /\ pc = "done"
    /\ result.ok
    /\ tk.reqs >= 6
    /\ tk.reqs = TokenCount(input_, 0) + 1

\* A parse has returned an error after more than MaxDepth requests.
C30_WitnessDeep ==
    /\ Parsing
    /\ pc = "done"
    /\ ~result.ok
    /\ tk.reqs > MaxDepth

\* parse is straight-line code on one thread: a step it can take is taken.
\* This is WF_vars(NextParse) with ENABLED <<NextParse>>_vars written out
\* as ParserRunning.
SpecLexFair ==
    /\ SpecLex
    /\ WF_vars(parse)
    /\ []<>(~ParserRunning) \/ []<><<ParserStep>>_vars

=============================================================================
